---- MODULE Spec2Model ----
(***************************************************************************)
(* Asset download orchestration of the Poliigon addon: FileDownload units, *)
(* the per-file worker (PoliigonConnector.download_asset_file), and the    *)
(* two asset-level orchestrators, c_Toolbox.download_asset_thread          *)
(* (toolbox.py) and PoliigonAddon.download_asset (addon.py).               *)
(*                                                                         *)
(* One asset is downloaded; its URL list names the files 1..nfiles.        *)
(* Sizes are counted in chunks.  The environment decides the outcome of    *)
(* every URL-list request and of every stream, within a budget of injected *)
(* failures.                                                               *)
(***************************************************************************)
EXTENDS Integers, FiniteSets, Sequences, TLC

\* ---------------------------------------------------------------- bounds
\* files of the asset, failures the environment may inject, and the count up
\* to which URL-list requests are told apart (above MAX_DOWNLOAD_RETRIES)
NumFiles == 2
MaxFaults == 1
UrlReqCap == 11
\* files of the asset in the per-file retry scenario
RetryFiles == 4
\* assets whose download is requested from the asset pool
NumAssets == 4
NumIds == 2
MaxIndexOps == 3
MaxTokens == 3
MaxCacheOps == 4
\* ApiJob objects handed to the remote control, and wait_for_all calls
NumJobs == 2
MaxWaits == 1

\* ------------------------------------------------------ program constants
MAX_RETRIES_PER_FILE == 3
TB_MAX_DOWNLOAD_RETRIES == 3
MAX_DOWNLOAD_RETRIES == 10
MAX_PARALLEL_DOWNLOADS_PER_ASSET == 8
MAX_PARALLEL_ASSET_DOWNLOADS == 2
\* size_expected of every file of the URL list, in chunks
SizeExpected == 2

NoFile == 0 - 1

\* DownloadStatus
INITIALIZED == "INITIALIZED"
WAITING == "WAITING"
ONGOING == "ONGOING"
CANCELLED == "CANCELLED"
DONE == "DONE"
ERROR == "ERROR"

\* ApiResponse.error of a worker, as far as the orchestrators tell them apart
ERR_URL_EXPIRED == "expired"
ERR_CONNECTION == "connection"
ERR_OS_NO_SPACE == "nospace"
ERR_FILESIZE_MISMATCH == "mismatch"
ERR_USER_CANCEL_MSG == "usercancel"

\* what the environment can do to a download, besides the ApiResponse errors
NOLENGTH == "nolength"      \* a response without Content-Length
BADLENGTH == "badlength"    \* a Content-Length other than size_expected
SHORT == "short"            \* the stream ends before Content-Length bytes
STALL == "stall"            \* a write that blocks for longer than a minute
MKDIR == "mkdir"            \* os.makedirs fails
RENAME == "rename"          \* os.rename fails
NOLIST == "nolist"          \* the URL-list request fails
EMPTYLIST == "emptylist"    \* the URL list has no file
EnvFaultKinds == {ERR_URL_EXPIRED, ERR_CONNECTION, ERR_OS_NO_SPACE, NOLENGTH,
                  BADLENGTH, SHORT, STALL, MKDIR, RENAME, NOLIST, EMPTYLIST}

\* Errors _request_stream can return, and exceptions the chunk loop can catch
StreamErrors == {ERR_URL_EXPIRED, ERR_CONNECTION}
ChunkErrors == {ERR_CONNECTION, ERR_OS_NO_SPACE}
ErrResults == {ERR_URL_EXPIRED, ERR_CONNECTION, ERR_OS_NO_SPACE,
               ERR_FILESIZE_MISMATCH, ERR_USER_CANCEL_MSG}

VARIABLES
    \* --- FileDownload units of the current dl_list (one per file)
    status,           \* FileDownload.status
    fut,              \* FileDownload.fut: none | pending | running | cancelled
                      \*   | ok | <an ErrResults value> | raised
    wpc,              \* position of the unit's worker while fut = running
    size_downloaded,  \* FileDownload.size_downloaded
    stream_size,      \* Content-Length of the open stream
    dretries,         \* FileDownload.retries
    \* --- file system: size of <file>dl and of <file>, NoFile when absent
    temp,
    final,
    \* --- download queue and asset-level routine
    inQueue,          \* asset_id in vDownloadQueue / download_queue
    cancelled,        \* asset_id in vDownloadCancelled / download_cancelled
    afut,             \* the routine's future: none | pending | running | done
                      \*   | cancelled | raised
    pc,               \* position of the routine
    retries,          \* its local retries
    all_done,
    any_error,
    user_cancel,
    scheduled,        \* a dl_list has been scheduled (dl_list is not empty)
    ci,               \* cancel_downloads: index of the unit waited for
    \* --- environment and observations
    faults,           \* failures injected so far
    urlDown,          \* the URL-list service is down for good
    urlReqs,          \* URL-list requests issued by the routine
    streamReqs,       \* per unit: a streaming request was issued
    writes,           \* per unit: bytes were written to the temp file
    resubmits,        \* per unit: resubmissions by retry_file_download
    rescans,          \* update_asset_data calls
    reported,         \* what the routine reported: none | ok | error
    cancelReturn,     \* how cancel_downloads on the current dl_list ended:
                      \*   none | timing_out (a wait timed out, not yet returned)
                      \*   | clean | timeout (returned) | raised (exception)
    dirCreated,       \* the destination directory was created
    variant,          \* the orchestrator that runs: toolbox | addon
    nfiles,           \* number of files in the asset's URL list
    envFaults,        \* the kinds of failure the environment may inject
    budget,           \* and how many of them
    preTemp,          \* the file system before the download
    preFinal,
    earlyCancel,      \* the user cancelled before the routine's top check
    orphans,          \* a worker of a replaced dl_list is still running
    broken,           \* per file: status left DONE/ERROR for a non-final one
    \* --- the pool of asset download routines (tm.PoolKeys.ASSET_DL)
    slot,             \* per asset, its routine's future: none | pending
                      \*   | running | done | cancelled
    \* --- the Local Asset Index (AssetIndex) and the threads that call it
    all_assets,       \* AssetIndex.all_assets: asset_id -> AssetData
    cached_queries,   \* AssetIndex.cached_queries: the tabs with a cached query
    ipc,              \* per thread: the statement it is at, idle when in none
    iarg,             \* per thread: the arguments of its call
    asset_data,       \* per thread: update_asset's local asset_data
    iresult,          \* how the last call that ended did: none | returned
                      \*   | KeyError | ValueError
    iops,             \* index calls made so far
    bound,            \* per asset_id: the first name and type stored under it
    dd_caller,        \* get_download_data: whose it was: none | addon | toolbox
    dd_sizes,         \* get_download_data: the sizes asked for, in list order
    dd_avail,         \* get_download_data: the sizes the asset comes in
    dd_result,        \* get_download_data: download_data["assets"][0]["sizes"]
    token,            \* PoliigonConnector.token: 0 (None) or the token held
    invalidated,      \* PoliigonConnector.invalidated
    areq,             \* per thread: the request in flight, if any
    revoked,          \* the tokens the server answers with 401
    unauthorized,     \* the tokens a 401 response was received for
    invalidations,    \* per token: calls of _on_invalidated after its 401
    lib,              \* per library directory: the files of the asset's directory
    s_type,           \* the asset's type in the index, "" while it is absent
    s_maps,           \* the asset's TextureMap records: filename and directory
    s_meshes,         \* the asset's ModelMesh records: filename and directory
    s_sizes,          \* the sizes of the asset's type data
    s_local,          \* the asset's is_local
    s_op,             \* the last operation: none | fs | populate
                      \*   | update_from_directory | update_all_local_assets
    s_dir,            \* the directory update_from_directory scanned last
    s_ret,            \* what update_from_directory returned last
    s_update,         \* the asset_data_update it built last
    c_assets,         \* AssetIndex.all_assets of the index with a cache file
    c_queries,        \* its cached_queries: the tabs with a stored query
    cache_file,       \* the file at path_cache: NoCacheFile or its content
    c_saved,          \* all_assets as it was when the file was written
    c_op,             \* the last operation on this index and how it ended
    c_removed,        \* the ids it took out of all_assets
    c_ops,            \* operations so far
    q_store,          \* queue_download's store of the future into the queue
                      \*   entry: none | pending | stored | KeyError
    queue_jobs,       \* ApiRemoteControl.queue_jobs
    jobs_in_flight,   \* jobs_in_flight: the list of jobs of each job type
    queue_jobs_done,  \* queue_jobs_done
    job_future,       \* job.future of each job: none | pending | running |
                      \*   done | cancelled
    job_cb,           \* the done callback has been added to job.future
    job_sub,          \* what enqueue_job did with the job: new | checked |
                      \*   skipped | queued | forced
    job_cancel,       \* what wait_for_all did with the job: none |
                      \*   cancelled (future.cancel() succeeded) | callback
    cnt_done,         \* times the collector finished and released the job
    sch,              \* _thread_schedule: its position and its job
    col,              \* _thread_collect: its position and its job
    caller,           \* the thread that calls enqueue_job, wait_for_all and
                      \*   shutdown
    waits             \* wait_for_all calls so far

vars == <<status, fut, wpc, size_downloaded, stream_size, dretries, temp,
          final, inQueue, cancelled, afut, pc, retries, all_done, any_error,
          user_cancel, scheduled, ci, faults, urlDown, urlReqs, streamReqs, writes,
          resubmits, rescans, reported, cancelReturn, variant, nfiles, envFaults, budget,
          preTemp, preFinal,
          earlyCancel, orphans, dirCreated, broken, slot,
          all_assets, cached_queries, ipc, iarg, asset_data, iresult, iops, bound,
          dd_caller, dd_sizes, dd_avail, dd_result,
          token, invalidated, areq, revoked, unauthorized, invalidations,
          lib, s_type, s_maps, s_meshes, s_sizes, s_local, s_op, s_dir, s_ret,
          s_update, c_assets, c_queries, cache_file, c_saved, c_op, c_removed,
          c_ops, q_store, queue_jobs, jobs_in_flight, queue_jobs_done,
          job_future, job_cb, job_sub, job_cancel, cnt_done, sch, col, caller,
          waits>>

\* the asset pool, which the download of one asset leaves alone
poolVars == <<slot>>
\* the asset index, which neither of them touches in this model
indexVars == <<all_assets, cached_queries, ipc, iarg, asset_data, iresult, iops, bound>>
\* the request data of a download
sizeVars == <<dd_caller, dd_sizes, dd_avail, dd_result>>
\* what the download of an asset, the pool and the index calls leave alone
\* the connector's token
authVars == <<token, invalidated, areq, revoked, unauthorized, invalidations>>
\* the library directories and the asset's local file records
scanVars == <<lib, s_type, s_maps, s_meshes, s_sizes, s_local, s_op, s_dir, s_ret,
              s_update>>
\* the index that is saved to and loaded from its cache file
cacheVars == <<c_assets, c_queries, cache_file, c_saved, c_op, c_removed, c_ops>>
\* the API remote control
rcVars == <<queue_jobs, jobs_in_flight, queue_jobs_done, job_future, job_cb,
            job_sub, job_cancel, cnt_done, sch, col, caller, waits>>
libVars == <<sizeVars, authVars, scanVars, cacheVars, rcVars>>
\* what only the download request itself changes
preVars == <<variant, nfiles, envFaults, budget, preTemp, preFinal, poolVars,
             indexVars, libVars, q_store>>
unitVars == <<status, fut, wpc, size_downloaded, stream_size, dretries>>
fsVars == <<temp, final>>
queueVars == <<inQueue, cancelled, afut>>
routineVars == <<pc, retries, all_done, any_error, user_cancel, scheduled, ci>>
obsVars == <<urlReqs, resubmits, rescans, reported, cancelReturn, preVars, earlyCancel, orphans, dirCreated>>
\* the download of one asset, which the asset pool leaves alone
downloadVars == <<unitVars, fsVars, queueVars, routineVars, broken, faults, urlDown,
                  streamReqs, writes, urlReqs, resubmits, rescans, reported,
                  cancelReturn, earlyCancel, orphans, dirCreated, variant, nfiles,
                  envFaults, budget, preTemp, preFinal, q_store>>

\* the units of a dl_list, in list order
Units == 1..nfiles

\* the environment may inject a failure of this kind: within the budget, and
\* for the outcomes of a URL-list request without one
MayFail(kind) == faults < budget /\ kind \in envFaults
MayAnswer(kind) == kind \in envFaults

\* ------------------------------------------------------ FileDownload
FinalStates == {DONE, ERROR}

\* set_status_cancelled without its check for the final states
SetStatusCancelled_Unconditional(s) == CANCELLED

\* FileDownload.set_status_cancelled: do not overwrite final states
SetStatusCancelled(s) == IF s \in FinalStates THEN s ELSE CANCELLED

\* set_status_ongoing without its check for CANCELLED
SetStatusOngoing_Unconditional(s) == <<TRUE, ONGOING>>

\* FileDownload.set_status_ongoing: <<result, new status>>
SetStatusOngoing(s) == IF s # CANCELLED THEN <<TRUE, ONGOING>> ELSE <<FALSE, s>>

\* FileDownload.set_status_error, set_status_done: unconditional
SetStatusError(s) == ERROR
SetStatusDone(s) == DONE

\* Future.done(): cancelled or finished
FutDone(f) == f \notin {"none", "pending", "running"}
\* the future finished with a result (ApiResponse), ok or not
FutHasResult(f) == f = "ok" \/ f \in ErrResults

\* a status write; records a move out of a final state
Broke(u, new) ==
    broken' = [broken EXCEPT ![u] = broken[u] \/
                 (status[u] \in FinalStates /\ new \in {WAITING, ONGOING, CANCELLED})]

\* ------------------------------------------------- download_asset_file
\* check_exist_and_finished with the size comparison inverted
CheckExistAndFinished_Inverted(size) == size # NoFile /\ size # SizeExpected

\* PoliigonConnector.check_exist_and_finished
CheckExistAndFinished(size) == size # NoFile /\ size = SizeExpected

\* delete_file taking every temp file of the download directory
DeleteFile_Directory(u) == temp' = [v \in Units |-> NoFile]

\* PoliigonConnector.delete_file
DeleteFile(u) == temp' = [temp EXCEPT ![u] = NoFile]

\* The worker leaves the pool queue, checks for the finished file and, when
\* there is none, requests the stream.
WorkerBegin(u) ==
    /\ fut[u] = "pending"
    /\ Cardinality({v \in Units : fut[v] = "running"}) < MAX_PARALLEL_DOWNLOADS_PER_ASSET
    /\ IF CheckExistAndFinished(temp[u]) \/ CheckExistAndFinished(final[u])
       THEN /\ status' = [status EXCEPT ![u] = SetStatusDone(status[u])]
            /\ size_downloaded' = [size_downloaded EXCEPT ![u] = SizeExpected]
            /\ fut' = [fut EXCEPT ![u] = "ok"]
            /\ wpc' = [wpc EXCEPT ![u] = "found"]
            /\ UNCHANGED <<stream_size, streamReqs, faults, urlDown>>
       ELSE /\ streamReqs' = [streamReqs EXCEPT ![u] = TRUE]
            /\ UNCHANGED urlDown
            /\ \/ \* the request fails
                  /\ \E e \in StreamErrors :
                        /\ MayFail(e)
                        /\ fut' = [fut EXCEPT ![u] = e]
                  /\ faults' = faults + 1
                  /\ status' = [status EXCEPT ![u] = SetStatusError(status[u])]
                  /\ wpc' = [wpc EXCEPT ![u] = "refused"]
                  /\ UNCHANGED <<stream_size, size_downloaded>>
               \/ \* the response has no Content-Length header: KeyError
                  /\ MayFail(NOLENGTH)
                  /\ faults' = faults + 1
                  /\ fut' = [fut EXCEPT ![u] = "raised"]
                  /\ wpc' = [wpc EXCEPT ![u] = "refused"]
                  /\ UNCHANGED <<status, stream_size, size_downloaded>>
               \/ \* the stream is open
                  /\ \E cl \in {SizeExpected} \cup
                               (IF MayFail(BADLENGTH) THEN {SizeExpected + 1} ELSE {}) :
                        /\ stream_size' = [stream_size EXCEPT ![u] = cl]
                        /\ faults' = IF cl = SizeExpected THEN faults ELSE faults + 1
                  /\ fut' = [fut EXCEPT ![u] = "running"]
                  /\ wpc' = [wpc EXCEPT ![u] = "opened"]
                  /\ UNCHANGED <<status, size_downloaded>>
    /\ UNCHANGED <<dretries, temp, final, broken, writes>>
    /\ UNCHANGED <<queueVars, routineVars, obsVars>>

\* set_status_ongoing, then open(path_temp, "wb")
WorkerOngoing(u) ==
    /\ fut[u] = "running" /\ wpc[u] = "opened"
    /\ LET r == SetStatusOngoing(status[u]) IN
       IF r[1]
       THEN /\ status' = [status EXCEPT ![u] = r[2]]
            /\ Broke(u, r[2])
            /\ size_downloaded' = [size_downloaded EXCEPT ![u] = 0]
            /\ temp' = [temp EXCEPT ![u] = 0]
            /\ wpc' = [wpc EXCEPT ![u] = "streaming"]
            /\ UNCHANGED fut
       ELSE /\ fut' = [fut EXCEPT ![u] = ERR_USER_CANCEL_MSG]
            /\ wpc' = [wpc EXCEPT ![u] = "refused"]
            /\ UNCHANGED <<status, size_downloaded, temp, broken>>
    /\ UNCHANGED <<stream_size, dretries, final, faults, urlDown, streamReqs, writes>>
    /\ UNCHANGED <<queueVars, routineVars, obsVars>>

\* the size comparison without size_expected: the bytes written are only
\* compared with Content-Length
WorkerCompare_ContentLengthOnly(u, sd, tmp) ==
    /\ wpc' = [wpc EXCEPT ![u] = "compared"]
    /\ IF sd = stream_size[u]
       THEN /\ status' = [status EXCEPT ![u] = SetStatusDone(status[u])]
            /\ fut' = [fut EXCEPT ![u] = "ok"]
            /\ temp' = [temp EXCEPT ![u] = tmp]
       ELSE /\ status' = [status EXCEPT ![u] = SetStatusError(status[u])]
            /\ fut' = [fut EXCEPT ![u] =
                         IF status[u] = CANCELLED THEN ERR_USER_CANCEL_MSG
                         ELSE ERR_FILESIZE_MISMATCH]
            /\ DeleteFile(u)

\* the end of the worker after its chunk loop: the size comparison
WorkerCompare(u, sd, tmp) ==
    /\ wpc' = [wpc EXCEPT ![u] = "compared"]
    /\ IF SizeExpected = sd /\ sd = stream_size[u]
       THEN /\ status' = [status EXCEPT ![u] = SetStatusDone(status[u])]
            /\ fut' = [fut EXCEPT ![u] = "ok"]
            /\ temp' = [temp EXCEPT ![u] = tmp]
       ELSE /\ status' = [status EXCEPT ![u] = SetStatusError(status[u])]
            /\ fut' = [fut EXCEPT ![u] =
                         IF status[u] = CANCELLED THEN ERR_USER_CANCEL_MSG
                         ELSE ERR_FILESIZE_MISMATCH]
            /\ DeleteFile(u)

\* one chunk is written; a cancelled unit breaks out of the loop
WorkerChunk(u) ==
    /\ fut[u] = "running" /\ wpc[u] = "streaming"
    /\ size_downloaded[u] < stream_size[u]
    /\ writes' = [writes EXCEPT ![u] = TRUE]
    /\ size_downloaded' = [size_downloaded EXCEPT ![u] = @ + 1]
    /\ IF status[u] = CANCELLED
       THEN WorkerCompare(u, size_downloaded[u] + 1, temp[u] + 1)
       ELSE /\ temp' = [temp EXCEPT ![u] = @ + 1]
            /\ UNCHANGED <<status, fut, wpc>>
    /\ UNCHANGED <<stream_size, dretries, final, faults, urlDown, streamReqs, broken>>
    /\ UNCHANGED <<queueVars, routineVars, obsVars>>

\* the stream ends: after Content-Length bytes, or short
WorkerStreamEnd(u) ==
    /\ fut[u] = "running" /\ wpc[u] = "streaming"
    /\ \/ /\ size_downloaded[u] = stream_size[u]
          /\ UNCHANGED <<faults, urlDown>>
       \/ /\ size_downloaded[u] < stream_size[u]
          /\ MayFail(SHORT)
          /\ faults' = faults + 1
          /\ UNCHANGED urlDown
    /\ WorkerCompare(u, size_downloaded[u], temp[u])
    /\ UNCHANGED <<size_downloaded, stream_size, dretries, final, streamReqs,
                   writes, broken>>
    /\ UNCHANGED <<queueVars, routineVars, obsVars>>

\* an exception in the chunk loop: ConnectionError, OSError(ENOSPC)
WorkerException(u) ==
    /\ fut[u] = "running" /\ wpc[u] = "streaming"
    /\ \E e \in ChunkErrors :
          /\ MayFail(e)
          /\ fut' = [fut EXCEPT ![u] = e]
    /\ faults' = faults + 1
    /\ UNCHANGED urlDown
    /\ status' = [status EXCEPT ![u] = SetStatusError(status[u])]
    /\ DeleteFile(u)
    /\ wpc' = [wpc EXCEPT ![u] = "excepted"]
    /\ UNCHANGED <<size_downloaded, stream_size, dretries, final, streamReqs,
                   writes, broken>>
    /\ UNCHANGED <<queueVars, routineVars, obsVars>>

\* a write of the chunk loop blocks for longer than the 60 seconds
\* cancel_downloads waits for a future
WorkerStall(u) ==
    /\ fut[u] = "running" /\ wpc[u] = "streaming"
    /\ MayFail(STALL)
    /\ faults' = faults + 1
    /\ UNCHANGED urlDown
    /\ wpc' = [wpc EXCEPT ![u] = "stalled"]
    /\ UNCHANGED <<status, fut, size_downloaded, stream_size, dretries, temp,
                   final, streamReqs, writes, broken>>
    /\ UNCHANGED <<queueVars, routineVars, obsVars>>

\* the blocked write goes on
WorkerResume(u) ==
    /\ fut[u] = "running" /\ wpc[u] = "stalled"
    /\ wpc' = [wpc EXCEPT ![u] = "streaming"]
    /\ UNCHANGED <<status, fut, size_downloaded, stream_size, dretries, temp,
                   final, streamReqs, writes, broken, faults, urlDown>>
    /\ UNCHANGED <<queueVars, routineVars, obsVars>>

Worker ==
    \E u \in Units :
        \/ WorkerBegin(u)
        \/ WorkerOngoing(u)
        \/ WorkerChunk(u)
        \/ WorkerStreamEnd(u)
        \/ WorkerException(u)
        \/ WorkerStall(u)
        \/ WorkerResume(u)

\* ------------------------------------------------- shared orchestration
\* the unit with the lowest index in S (dl_list order); nfiles + 1 if none
FirstOf(S) == IF S = {} THEN nfiles + 1
              ELSE CHOOSE u \in S : \A v \in S : u <= v

\* a future that finished without an ok result, or with an exception
FutFailed(f) == f \in ErrResults \/ f = "raised"

\* cancel_downloads without the wait for the futures it could not cancel
CancelWaitResult_NoWait(f, w) == IF f = "cancelled" THEN "skip" ELSE "result"

\* cancel_downloads, second loop, for a future f whose worker is at w:
\*   skip (fut.cancelled()), result or exception (fut.result() returned or
\*   raised), timeout (no result within 60 seconds), blocked (still waiting)
CancelWaitResult(f, w) ==
    IF f = "cancelled" THEN "skip"
    ELSE IF FutHasResult(f) THEN "result"
    ELSE IF f = "raised" THEN "exception"
    ELSE IF f = "running" /\ w = "stalled" THEN "timeout"
    ELSE "blocked"

\* cancel_downloads, first loop: set_status_cancelled and fut.cancel() per unit
CancelAll ==
    /\ status' = [u \in Units |-> SetStatusCancelled(status[u])]
    /\ broken' = [u \in Units |-> broken[u] \/
                    (status[u] \in FinalStates /\ SetStatusCancelled(status[u]) = CANCELLED)]
    /\ fut' = [u \in Units |-> IF fut[u] = "pending" THEN "cancelled" ELSE fut[u]]

\* the user's cancel request (POLIIGON_OT_cancel_download.execute)
CancelImmediate == inQueue /\ afut = "pending"
\* download_done taken from future.running() \/ future.done()
CancelDone_OrRunning == inQueue /\ afut \in {"running", "done", "cancelled", "raised"}
CancelDone == inQueue /\ afut \in {"done", "cancelled", "raised"}

CancelDownload ==
    /\ IF CancelImmediate
       THEN /\ afut' = "cancelled"
            /\ inQueue' = FALSE
            /\ pc' = "dropped"
            /\ UNCHANGED cancelled
       ELSE /\ cancelled' = (cancelled \/ ~CancelDone)
            /\ UNCHANGED <<afut, inQueue, pc>>
    /\ earlyCancel' = (earlyCancel \/ pc \in {"queued", "top"})
    /\ UNCHANGED <<unitVars, fsVars, broken, faults, urlDown, streamReqs, writes>>
    /\ UNCHANGED <<retries, all_done, any_error, user_cancel, scheduled, ci>>
    /\ UNCHANGED <<urlReqs, resubmits, rescans, reported, cancelReturn,
                   preVars, orphans, dirCreated>>

\* the download request: the queue entry, then the routine is handed to the
\* asset pool. The operator keeps the entry's dict and stores the future in
\* it; queue_download has yet to store it in download_queue[asset_id].
QueueDownload ==
    /\ pc = "idle"
    /\ inQueue' = TRUE
    /\ afut' = "pending"
    /\ pc' = "queued"
    /\ q_store' = IF variant = "addon" THEN "pending" ELSE q_store
    /\ UNCHANGED <<cancelled, unitVars, fsVars, broken, faults, urlDown, streamReqs, writes>>
    /\ UNCHANGED <<retries, all_done, any_error, user_cancel, scheduled, ci>>
    /\ UNCHANGED <<urlReqs, resubmits, rescans, reported, cancelReturn,
                   earlyCancel, orphans, dirCreated>>
    /\ UNCHANGED <<variant, nfiles, envFaults, budget, preTemp, preFinal, poolVars,
                   indexVars, libVars>>

\* queue_download, after download_asset returned the future:
\* self.download_queue[asset_id]["future"] = future
Q_StoreFuture ==
    /\ q_store = "pending"
    /\ q_store' = IF inQueue THEN "stored" ELSE "KeyError"
    /\ UNCHANGED <<unitVars, fsVars, queueVars, routineVars, broken, faults,
                   urlDown, streamReqs, writes>>
    /\ UNCHANGED <<urlReqs, resubmits, rescans, reported, cancelReturn,
                   earlyCancel, orphans, dirCreated>>
    /\ UNCHANGED <<variant, nfiles, envFaults, budget, preTemp, preFinal, poolVars,
                   indexVars, libVars>>

\* the asset pool starts the routine
RoutineStart ==
    /\ pc = "queued" /\ afut = "pending"
    /\ afut' = "running"
    /\ pc' = "top"
    /\ UNCHANGED <<inQueue, cancelled, unitVars, fsVars, broken, faults, urlDown,
                   streamReqs, writes>>
    /\ UNCHANGED <<retries, all_done, any_error, user_cancel, scheduled, ci>>
    /\ UNCHANGED obsVars

\* the routine ends in an exception
Crash ==
    /\ pc' = "crashed"
    /\ afut' = "raised"

\* ------------------------------- c_Toolbox.download_asset_thread (toolbox.py)
\* the check at the top of the routine, under lock_download
T_TopCheck ==
    /\ pc = "top"
    /\ IF cancelled
       THEN /\ inQueue' = FALSE
            /\ cancelled' = FALSE
            /\ pc' = "done"
            /\ afut' = "done"
            /\ UNCHANGED <<retries, all_done, any_error, user_cancel, dirCreated,
                           faults>>
       ELSE IF ~inQueue
       THEN /\ pc' = "done"
            /\ afut' = "done"
            /\ UNCHANGED <<inQueue, cancelled, retries, all_done, any_error,
                           user_cancel, dirCreated, faults>>
       ELSE \/ /\ pc' = "loop"
               /\ dirCreated' = TRUE
               /\ retries' = TB_MAX_DOWNLOAD_RETRIES
               /\ all_done' = FALSE
               /\ any_error' = FALSE
               /\ user_cancel' = FALSE
               /\ UNCHANGED <<inQueue, cancelled, afut, faults>>
            \/ \* os.mkdir(download_dir) raises
               /\ MayFail(MKDIR)
               /\ faults' = faults + 1
               /\ Crash
               /\ UNCHANGED <<inQueue, cancelled, retries, all_done, any_error,
                              user_cancel, dirCreated>>
    /\ UNCHANGED <<unitVars, fsVars, broken, urlDown, streamReqs, writes, scheduled, ci>>
    /\ UNCHANGED <<urlReqs, resubmits, rescans, reported, cancelReturn, preVars, earlyCancel, orphans>>

\* a URL-list request (get_download_list) with this answer: the files, none
\* or an empty list.  The service fails once, within the budget of failures,
\* or goes down for good.
UrlRequest(answer) ==
    /\ urlReqs' = IF urlReqs < UrlReqCap THEN urlReqs + 1 ELSE urlReqs
    /\ \/ /\ answer = "files" /\ ~urlDown
          /\ UNCHANGED <<faults, urlDown>>
       \/ /\ answer = "none" /\ urlDown
          /\ UNCHANGED <<faults, urlDown>>
       \/ /\ answer = "none" /\ ~urlDown /\ MayAnswer(NOLIST)
          /\ urlDown' = TRUE
          /\ UNCHANGED faults
       \/ /\ answer = "none" /\ ~urlDown /\ MayFail(NOLIST)
          /\ faults' = faults + 1
          /\ UNCHANGED urlDown
       \/ /\ answer = "empty" /\ ~urlDown /\ MayFail(EMPTYLIST)
          /\ faults' = faults + 1
          /\ UNCHANGED urlDown

\* a new dl_list replaces the old one: new FileDownload objects
ReplaceUnits(listed, submit) ==
    /\ status' = [u \in Units |-> IF listed /\ submit THEN WAITING ELSE INITIALIZED]
    /\ fut' = [u \in Units |-> IF listed /\ submit THEN "pending" ELSE "none"]
    /\ wpc' = [u \in Units |-> "begin"]
    /\ size_downloaded' = [u \in Units |-> 0]
    /\ stream_size' = [u \in Units |-> 0]
    /\ dretries' = [u \in Units |-> MAX_RETRIES_PER_FILE]
    /\ resubmits' = [u \in Units |-> 0]
    /\ streamReqs' = [u \in Units |-> FALSE]
    /\ writes' = [u \in Units |-> FALSE]
    /\ orphans' = (orphans \/ \E u \in Units : fut[u] = "running")
    /\ UNCHANGED broken

\* one pass of the outer loop up to schedule_downloads, or its exit
T_Loop ==
    /\ pc = "loop"
    /\ IF ~(~all_done /\ ~user_cancel /\ retries > 0)
       THEN /\ pc' = "after"
            /\ UNCHANGED <<unitVars, broken, retries, user_cancel, scheduled,
                           urlReqs, reported, cancelReturn, resubmits, orphans,
                           streamReqs, writes, faults, urlDown>>
       ELSE /\ reported' = "none"
            /\ user_cancel' = cancelled
            /\ cancelReturn' = "none"
            /\ \E answer \in {"files", "none"} :
                 LET listed == answer = "files" IN
                 /\ UrlRequest(answer)
                 /\ scheduled' = listed
                 /\ ReplaceUnits(listed, ~cancelled)
                 /\ IF cancelled
                    THEN pc' = "after" /\ UNCHANGED retries
                    ELSE IF ~listed
                    THEN pc' = "loop" /\ retries' = retries - 1
                    ELSE pc' = "poll" /\ UNCHANGED retries
    /\ UNCHANGED <<fsVars, queueVars, all_done, any_error, ci, rescans,
                   preVars, earlyCancel, dirCreated>>

\* c_Toolbox.check_downloads: the first failed unit in dl_list order, if any
T_FirstFailed == FirstOf({u \in Units : FutFailed(fut[u])})
\* all_done of check_downloads without the reset for a future that is not done
T_AllDone_UnfinishedSkipped == \A u \in Units : ~FutDone(fut[u]) \/ fut[u] = "ok"

\* all_done of check_downloads where no unit failed
T_AllDone == \A u \in Units : fut[u] = "ok"

\* check_downloads forces abort for every error but an expired URL
T_ForceAbort(u) == fut[u] # ERR_URL_EXPIRED

\* FileDownload.retries after check_downloads
T_CheckedRetries ==
    [u \in Units |-> IF u = T_FirstFailed /\ T_ForceAbort(u) THEN 0 ELSE dretries[u]]

\* handle_download_error sets ERROR where nobody did (an unhandled exception)
T_CheckedStatus ==
    [u \in Units |->
        IF /\ u = T_FirstFailed
           /\ T_CheckedRetries[u] <= 0
           /\ status[u] # CANCELLED
           /\ fut[u] \in {"raised", ERR_CONNECTION}
        THEN SetStatusError(status[u]) ELSE status[u]]

\* retry_file_download, given the refreshed URL list (fresh: it has the file):
\* the first ERROR unit without retries left ends the loop
T_FirstExhausted(st, rt) == FirstOf({u \in Units : st[u] = ERROR /\ rt[u] <= 0})

\* retry_file_download without its check of the unit's status
T_Resubmitted_AnyStatus(st, rt, fresh) ==
    {u \in Units : u < T_FirstExhausted(st, rt) /\ fresh}

\* the units retry_file_download resubmits
T_Resubmitted(st, rt, fresh) ==
    {u \in Units : /\ st[u] = ERROR
                   /\ u < T_FirstExhausted(st, rt)
                   /\ fresh}

\* one pass of the poll loop of poll_download_result
T_Poll ==
    /\ pc = "poll"
    /\ LET failed == T_FirstFailed <= nfiles
           rt == T_CheckedRetries
           st == T_CheckedStatus
       IN
       /\ all_done' = (T_AllDone /\ ~failed)
       /\ any_error' = failed
       /\ user_cancel' = cancelled
       /\ IF failed /\ rt[T_FirstFailed] <= 0 THEN reported' = "error"
          ELSE UNCHANGED reported
       /\ IF T_AllDone /\ ~failed
          THEN \* retries = 0; break; then retries -= 1 in the caller
               /\ retries' = 0 - 1
               /\ pc' = "loop"
               /\ status' = st /\ dretries' = rt
               /\ UNCHANGED <<fut, wpc, size_downloaded, stream_size, broken, ci,
                              urlReqs, resubmits, cancelReturn, faults, urlDown>>
          ELSE IF cancelled
          THEN /\ status' = [u \in Units |-> SetStatusCancelled(st[u])]
               /\ fut' = [u \in Units |-> IF fut[u] = "pending" THEN "cancelled" ELSE fut[u]]
               /\ dretries' = rt
               /\ pc' = "cancelwait"
               /\ ci' = 1
               /\ UNCHANGED <<wpc, size_downloaded, stream_size, broken, retries,
                              urlReqs, resubmits, cancelReturn, faults, urlDown>>
          ELSE IF failed
          THEN \E answer \in {"files", "none"} :
               LET fresh == answer = "files"
                   R == T_Resubmitted(st, rt, fresh)
                   exhausted == T_FirstExhausted(st, rt) <= nfiles
                   st2 == [u \in Units |-> IF u \in R THEN WAITING ELSE st[u]]
                   fut2 == [u \in Units |-> IF u \in R THEN "pending" ELSE fut[u]]
               IN
               /\ UrlRequest(answer)
               /\ dretries' = [u \in Units |-> IF u \in R THEN rt[u] - 1 ELSE rt[u]]
               /\ resubmits' = [u \in Units |-> IF u \in R THEN resubmits[u] + 1
                                                ELSE resubmits[u]]
               /\ broken' = [u \in Units |-> broken[u] \/ (u \in R /\ st[u] \in FinalStates)]
               /\ wpc' = [u \in Units |-> IF u \in R THEN "begin" ELSE wpc[u]]
               /\ UNCHANGED <<size_downloaded, stream_size, retries, cancelReturn>>
               /\ IF exhausted
                  THEN /\ status' = [u \in Units |-> SetStatusCancelled(st2[u])]
                       /\ fut' = [u \in Units |-> IF fut2[u] = "pending" THEN "cancelled"
                                                  ELSE fut2[u]]
                       /\ pc' = "cancelwait"
                       /\ ci' = 1
                  ELSE /\ status' = st2
                       /\ fut' = fut2
                       /\ pc' = "poll"
                       /\ UNCHANGED ci
          ELSE /\ status' = st /\ dretries' = rt
               /\ UNCHANGED <<fut, wpc, size_downloaded, stream_size, broken, retries,
                              pc, ci, urlReqs, resubmits, cancelReturn, faults,
                              urlDown>>
    /\ UNCHANGED <<fsVars, queueVars, scheduled, streamReqs, writes, rescans,
                   preVars, earlyCancel, orphans, dirCreated>>

\* c_Toolbox.cancel_downloads, second loop: wait for unit ci; a timeout or an
\* exception of the future is captured and the loop goes on
T_CancelWait ==
    /\ pc = "cancelwait"
    /\ CancelWaitResult(fut[ci], wpc[ci]) # "blocked"
    /\ cancelReturn' = IF CancelWaitResult(fut[ci], wpc[ci]) = "timeout"
                       THEN "timing_out" ELSE cancelReturn
    /\ IF ci < nfiles
       THEN /\ ci' = ci + 1
            /\ UNCHANGED <<pc, retries>>
       ELSE /\ ci' = 1
            /\ pc' = "cancelret"
            /\ UNCHANGED retries
    /\ UNCHANGED <<unitVars, fsVars, queueVars, all_done, any_error, user_cancel,
                   scheduled, broken, faults, urlDown, streamReqs, writes, urlReqs, resubmits,
                   rescans, reported, preVars, earlyCancel, orphans, dirCreated>>

\* cancel_downloads has returned: poll_download_result returns, retries -= 1
T_CancelReturn ==
    /\ pc = "cancelret"
    /\ cancelReturn' = IF cancelReturn = "timing_out" THEN "timeout" ELSE "clean"
    /\ retries' = retries - 1
    /\ pc' = "loop"
    /\ UNCHANGED <<unitVars, fsVars, queueVars, all_done, any_error, user_cancel,
                   scheduled, ci, broken, faults, urlDown, streamReqs, writes, urlReqs,
                   resubmits, rescans, reported, preVars, earlyCancel, orphans, dirCreated>>

\* c_Toolbox.rename_downloads, per unit: <<temp, final>> afterwards
T_Rename(t, f) ==
    IF t # NoFile /\ f # NoFile THEN <<NoFile, f>>
    ELSE IF t # NoFile THEN <<NoFile, t>>
    ELSE <<t, f>>

\* after the loop: rename_downloads on full success; os.remove and os.rename
\* fail for the units in denied, which is captured and otherwise ignored
T_After ==
    /\ pc = "after"
    /\ IF all_done /\ ~any_error /\ ~user_cancel /\ scheduled
       THEN \E denied \in SUBSET {u \in Units : temp[u] # NoFile} :
            /\ Cardinality(denied) <= budget - faults
            /\ denied # {} => MayFail(RENAME)
            /\ faults' = faults + Cardinality(denied)
            /\ UNCHANGED urlDown
            /\ temp' = [u \in Units |-> IF u \in denied THEN temp[u]
                                         ELSE T_Rename(temp[u], final[u])[1]]
            /\ final' = [u \in Units |-> IF u \in denied THEN final[u]
                                          ELSE T_Rename(temp[u], final[u])[2]]
       ELSE UNCHANGED <<fsVars, faults, urlDown>>
    /\ pc' = "rescan"
    /\ UNCHANGED <<unitVars, queueVars, retries, all_done, any_error, user_cancel,
                   scheduled, ci, broken, streamReqs, writes>>
    /\ UNCHANGED obsVars

\* update_asset_data: the download directory is scanned for the asset's files
UpdateAssetData ==
    /\ pc = "rescan"
    /\ rescans' = rescans + 1
    /\ pc' = "cleanup"
    /\ UNCHANGED <<unitVars, fsVars, queueVars, retries, all_done, any_error,
                   user_cancel, scheduled, ci, broken, faults, urlDown, streamReqs, writes>>
    /\ UNCHANGED <<urlReqs, resubmits, reported, cancelReturn, preVars,
                   earlyCancel, orphans, dirCreated>>

\* c_Toolbox.update_asset_data, called by download_asset_thread
T_Rescan == UpdateAssetData

\* the queue entry and the cancel mark are removed, under lock_download
T_Cleanup ==
    /\ pc = "cleanup"
    /\ inQueue' = FALSE
    /\ cancelled' = FALSE
    /\ afut' = "done"
    /\ pc' = "done"
    /\ reported' = IF reported = "none" /\ all_done /\ ~any_error /\ ~user_cancel
                   THEN "ok" ELSE reported
    /\ UNCHANGED <<unitVars, fsVars, retries, all_done, any_error, user_cancel,
                   scheduled, ci, broken, faults, urlDown, streamReqs, writes>>
    /\ UNCHANGED <<urlReqs, resubmits, rescans, cancelReturn, preVars,
                   earlyCancel, orphans, dirCreated>>

\* ------------------------------------ PoliigonAddon.download_asset (addon.py)
\* the check at the top of the routine
A_TopCheck ==
    /\ pc = "top"
    /\ IF cancelled
       THEN /\ inQueue' = FALSE
            /\ cancelled' = FALSE
            /\ pc' = "done"
            /\ afut' = "done"
       ELSE IF ~inQueue
       THEN /\ pc' = "done"
            /\ afut' = "done"
            /\ UNCHANGED <<inQueue, cancelled>>
       ELSE /\ pc' = "mkdir"
            /\ UNCHANGED <<inQueue, cancelled, afut>>
    /\ UNCHANGED <<unitVars, fsVars, broken, faults, urlDown, streamReqs, writes>>
    /\ UNCHANGED <<retries, all_done, any_error, user_cancel, scheduled, ci>>
    /\ UNCHANGED obsVars

\* os.makedirs(download_dir): PermissionError and OSError end the routine
A_MakeDirs ==
    /\ pc = "mkdir"
    /\ \/ /\ dirCreated' = TRUE
          /\ pc' = "loop"
          /\ retries' = MAX_DOWNLOAD_RETRIES
          /\ all_done' = FALSE
          /\ any_error' = FALSE
          /\ user_cancel' = FALSE
          /\ UNCHANGED <<inQueue, afut, reported, faults, urlDown>>
       \/ /\ MayFail(MKDIR)
          /\ faults' = faults + 1
          /\ UNCHANGED urlDown
          /\ reported' = "error"
          /\ inQueue' = FALSE
          /\ pc' = "done"
          /\ afut' = "done"
          /\ UNCHANGED <<dirCreated, retries, all_done, any_error, user_cancel>>
    /\ UNCHANGED <<unitVars, fsVars, cancelled, scheduled, ci, broken, streamReqs, writes>>
    /\ UNCHANGED <<urlReqs, resubmits, rescans, cancelReturn, preVars,
                   earlyCancel, orphans>>

\* the answers of get_download_list: None, an empty list, the files
UrlAnswers == {"none", "empty", "files"}

\* one pass of the outer loop up to schedule_downloads, or its exit
A_Loop ==
    /\ pc = "loop"
    /\ IF ~(~all_done /\ ~user_cancel /\ retries > 0)
       THEN /\ pc' = "after"
            /\ UNCHANGED <<unitVars, broken, retries, user_cancel, scheduled,
                           urlReqs, cancelReturn, resubmits, orphans, streamReqs,
                           writes, faults, urlDown>>
       ELSE /\ user_cancel' = cancelled
            /\ cancelReturn' = "none"
            /\ \E answer \in UrlAnswers :
                 /\ UrlRequest(answer)
                 /\ scheduled' = (answer = "files")
                 /\ ReplaceUnits(answer = "files", ~cancelled)
                 /\ IF cancelled
                    THEN pc' = "after" /\ UNCHANGED retries
                    ELSE IF answer = "none"
                    THEN pc' = "loop" /\ retries' = retries - 1
                    ELSE pc' = "poll" /\ UNCHANGED retries
    /\ UNCHANGED <<fsVars, queueVars, all_done, any_error, ci, rescans,
                   reported, preVars, earlyCancel, dirCreated>>

\* PoliigonAddon.check_downloads: the first unit whose future is done and
\* either failed or makes fut.result() raise
A_FirstFailed == FirstOf({u \in Units : FutDone(fut[u]) /\ fut[u] # "ok"})
A_AllDone == \A u \in Units : fut[u] = "ok"

\* one pass of the poll loop
A_Poll ==
    /\ pc = "poll"
    /\ IF ~scheduled
       THEN \* an empty dl_list: size_downloaded / size_asset divides by zero
            /\ Crash
            /\ UNCHANGED <<unitVars, broken, retries, all_done, any_error,
                           user_cancel, ci, reported>>
       ELSE IF A_FirstFailed <= nfiles /\ ~FutHasResult(fut[A_FirstFailed])
       THEN \* fut.result() raises the worker's exception
            /\ Crash
            /\ UNCHANGED <<unitVars, broken, retries, all_done, any_error,
                           user_cancel, ci, reported>>
       ELSE LET failed == A_FirstFailed <= nfiles IN
            /\ all_done' = (A_AllDone /\ ~failed)
            /\ any_error' = failed
            /\ user_cancel' = cancelled
            /\ UNCHANGED <<wpc, size_downloaded, stream_size, dretries, afut>>
            /\ IF A_AllDone /\ ~failed
               THEN /\ retries' = 0 - 1
                    /\ pc' = "loop"
                    /\ UNCHANGED <<status, fut, broken, ci, reported>>
               ELSE IF failed
               THEN /\ reported' = "error"
                    /\ CancelAll
                    /\ pc' = "cancelwait"
                    /\ ci' = 1
                    /\ UNCHANGED retries
               ELSE IF cancelled
               THEN /\ CancelAll
                    /\ pc' = "cancelwait"
                    /\ ci' = 1
                    /\ UNCHANGED <<retries, reported>>
               ELSE UNCHANGED <<status, fut, broken, retries, pc, ci, reported>>
    /\ UNCHANGED <<fsVars, inQueue, cancelled, scheduled, faults, urlDown, streamReqs, writes,
                   urlReqs, resubmits, rescans, cancelReturn, preVars,
                   earlyCancel, orphans, dirCreated>>

\* PoliigonAddon.cancel_downloads, second loop: wait for unit ci; a timeout
\* or an exception of the future is raised again
A_CancelWait ==
    /\ pc = "cancelwait"
    /\ \/ /\ CancelWaitResult(fut[ci], wpc[ci]) \in {"skip", "result"}
          /\ IF ci < nfiles
             THEN ci' = ci + 1 /\ UNCHANGED <<pc, afut, cancelReturn>>
             ELSE ci' = 1 /\ pc' = "cancelret" /\ UNCHANGED <<afut, cancelReturn>>
       \/ /\ CancelWaitResult(fut[ci], wpc[ci]) \in {"exception", "timeout"}
          /\ cancelReturn' = "raised"
          /\ Crash
          /\ UNCHANGED ci
    /\ UNCHANGED <<unitVars, fsVars, inQueue, cancelled, retries, all_done, any_error,
                   user_cancel, scheduled, broken, faults, urlDown, streamReqs, writes, urlReqs,
                   resubmits, rescans, reported, preVars, earlyCancel,
                   orphans, dirCreated>>

\* cancel_downloads has returned: return False after an error, else break
A_CancelReturn ==
    /\ pc = "cancelret"
    /\ cancelReturn' = "clean"
    /\ IF any_error
       THEN /\ pc' = "done"
            /\ afut' = "done"
            /\ UNCHANGED retries
       ELSE /\ pc' = "loop"
            /\ retries' = retries - 1
            /\ UNCHANGED afut
    /\ UNCHANGED <<unitVars, fsVars, inQueue, cancelled, all_done, any_error,
                   user_cancel, scheduled, ci, broken, faults, urlDown, streamReqs, writes,
                   urlReqs, resubmits, rescans, reported, preVars,
                   earlyCancel, orphans, dirCreated>>

\* the units whose temp file rename_downloads renames
A_NeedRename == {u \in Units : ~(temp[u] = NoFile /\ final[u] # NoFile)}

\* the units whose rename fails: os.rename raises FileNotFoundError without
\* a temp file, and PermissionError for the units in denied
A_RenameFailed(denied) == denied \cup {u \in A_NeedRename : temp[u] = NoFile}

\* PoliigonAddon.rename_downloads
A_RenameDownloads(denied) ==
    LET bad == A_RenameFailed(denied) IN
    /\ Cardinality(denied) <= budget - faults
    /\ denied # {} => MayFail(RENAME)
    /\ faults' = faults + Cardinality(denied)
    /\ UNCHANGED urlDown
    /\ temp' = [u \in Units |-> IF u \in A_NeedRename \ bad THEN NoFile ELSE temp[u]]
    /\ final' = [u \in Units |-> IF u \in A_NeedRename \ bad THEN temp[u] ELSE final[u]]
    /\ status' = [u \in Units |-> IF u \in bad THEN ERROR ELSE status[u]]

\* after the loop: rename_downloads on full success
A_After ==
    /\ pc = "after"
    /\ IF all_done /\ ~any_error /\ ~user_cancel
       THEN \E denied \in SUBSET A_NeedRename : A_RenameDownloads(denied)
       ELSE UNCHANGED <<fsVars, status, faults, urlDown>>
    /\ pc' = "rescan"
    /\ UNCHANGED <<fut, wpc, size_downloaded, stream_size, dretries, queueVars,
                   retries, all_done, any_error, user_cancel, scheduled, ci, broken,
                   streamReqs, writes>>
    /\ UNCHANGED obsVars

\* PoliigonAddon.update_asset_data, called by download_asset
A_Rescan == UpdateAssetData

\* the queue entry and the cancel mark are removed, done_callback(asset_id)
A_Cleanup ==
    /\ pc = "cleanup"
    /\ inQueue' = FALSE
    /\ cancelled' = FALSE
    /\ afut' = "done"
    /\ pc' = "done"
    /\ reported' = "ok"
    /\ UNCHANGED <<unitVars, fsVars, retries, all_done, any_error, user_cancel,
                   scheduled, ci, broken, faults, urlDown, streamReqs, writes>>
    /\ UNCHANGED <<urlReqs, resubmits, rescans, cancelReturn, preVars,
                   earlyCancel, orphans, dirCreated>>

\* ------------------------------ PoliigonAddon.download_asset_sync (addon.py)
\* The download state is kept in asset_data.state.dl: its cancel flag is
\* cancelled, its error is reported = "error".
\* download_asset_sync is called: asset_data.state.dl.start()
S_Start ==
    /\ pc = "idle"
    /\ pc' = "top"
    /\ afut' = "running"
    /\ UNCHANGED <<inQueue, cancelled, unitVars, fsVars, broken, faults, urlDown,
                   streamReqs, writes>>
    /\ UNCHANGED <<retries, all_done, any_error, user_cancel, scheduled, ci>>
    /\ UNCHANGED obsVars

\* the cancel flag of asset_data is set while the download runs
S_Cancel ==
    /\ pc \notin {"idle", "done", "crashed"}
    /\ ~cancelled
    /\ cancelled' = TRUE
    /\ UNCHANGED <<inQueue, afut, unitVars, fsVars, routineVars, obsVars, broken,
                   faults, urlDown, streamReqs, writes>>

\* cancelled before the start
S_TopCheck ==
    /\ pc = "top"
    /\ IF cancelled
       THEN pc' = "done" /\ afut' = "done"
       ELSE pc' = "mkdir" /\ UNCHANGED afut
    /\ UNCHANGED <<inQueue, cancelled, unitVars, fsVars, broken, faults, urlDown,
                   streamReqs, writes>>
    /\ UNCHANGED <<retries, all_done, any_error, user_cancel, scheduled, ci>>
    /\ UNCHANGED obsVars

\* os.makedirs(download_dir): PermissionError and OSError end the download
S_MakeDirs ==
    /\ pc = "mkdir"
    /\ \/ /\ dirCreated' = TRUE
          /\ pc' = "loop"
          /\ retries' = MAX_DOWNLOAD_RETRIES
          /\ all_done' = FALSE
          /\ UNCHANGED <<afut, reported, faults, urlDown>>
       \/ /\ MayFail(MKDIR)
          /\ faults' = faults + 1
          /\ UNCHANGED urlDown
          /\ reported' = "error"
          /\ pc' = "done"
          /\ afut' = "done"
          /\ UNCHANGED <<dirCreated, retries, all_done>>
    /\ UNCHANGED <<unitVars, fsVars, inQueue, cancelled, any_error, user_cancel,
                   scheduled, ci, broken, streamReqs, writes>>
    /\ UNCHANGED <<urlReqs, resubmits, rescans, cancelReturn, preVars,
                   earlyCancel, orphans>>

\* _asset_download_loop: the loop condition and the check of the cancel flag
\* at the top of a pass
S_Loop ==
    /\ pc = "loop"
    /\ IF ~(~all_done /\ retries > 0) \/ cancelled
       THEN pc' = "after"
       ELSE pc' = "request"
    /\ UNCHANGED <<unitVars, fsVars, queueVars, retries, all_done, any_error,
                   user_cancel, scheduled, ci, broken, faults, urlDown, streamReqs,
                   writes>>
    /\ UNCHANGED obsVars

\* retries after a URL-list request without an answer, kept as it is
S_RetriesAfterNone_Kept(r) == r

\* retries after a URL-list request without an answer
S_RetriesAfterNone(r) == r - 1

\* _asset_download_loop: get_download_list, then the cancel flag again, a
\* missing list, or schedule_downloads
S_Request ==
    /\ pc = "request"
    /\ cancelReturn' = "none"
    /\ \E answer \in UrlAnswers :
         /\ UrlRequest(answer)
         /\ scheduled' = (answer = "files")
         /\ ReplaceUnits(answer = "files", ~cancelled)
         /\ IF cancelled
            THEN pc' = "after" /\ UNCHANGED <<retries, reported>>
            ELSE IF answer = "none"
            THEN /\ pc' = "loop"
                 /\ retries' = S_RetriesAfterNone(retries)
                 /\ reported' = IF S_RetriesAfterNone(retries) = 0 THEN "error"
                                ELSE reported
            ELSE pc' = "poll" /\ UNCHANGED <<retries, reported>>
    /\ UNCHANGED <<fsVars, queueVars, all_done, any_error, user_cancel, ci, rescans,
                   preVars, earlyCancel, dirCreated>>

\* one pass of the poll loop of _download_asset_loop_poll
S_Poll ==
    /\ pc = "poll"
    /\ IF ~scheduled
       THEN \* an empty dl_list: size_downloaded_bytes / size_asset_bytes
            /\ Crash
            /\ UNCHANGED <<unitVars, broken, retries, all_done, any_error, ci,
                           reported>>
       ELSE IF A_FirstFailed <= nfiles /\ ~FutHasResult(fut[A_FirstFailed])
       THEN \* fut.result() raises
            /\ Crash
            /\ UNCHANGED <<unitVars, broken, retries, all_done, any_error, ci,
                           reported>>
       ELSE LET failed == A_FirstFailed <= nfiles
                has_error == failed \/ reported = "error"
                done == A_AllDone /\ ~failed
            IN
            /\ all_done' = done
            /\ any_error' = has_error
            /\ reported' = IF failed THEN "error" ELSE reported
            /\ UNCHANGED <<wpc, size_downloaded, stream_size, dretries, afut>>
            /\ IF done /\ ~has_error
               THEN \* break; the loop does retries -= 1
                    /\ pc' = "loop"
                    /\ retries' = retries - 1
                    /\ UNCHANGED <<status, fut, broken, ci>>
               ELSE IF has_error \/ cancelled
               THEN /\ CancelAll
                    /\ pc' = "cancelwait"
                    /\ ci' = 1
                    /\ UNCHANGED retries
               ELSE UNCHANGED <<status, fut, broken, retries, pc, ci>>
    /\ UNCHANGED <<fsVars, inQueue, cancelled, user_cancel, scheduled, faults, urlDown,
                   streamReqs, writes, urlReqs, resubmits, rescans, cancelReturn,
                   preVars, earlyCancel, orphans, dirCreated>>

\* cancel_downloads has returned: the poll loop is left, retries -= 1
S_CancelReturn ==
    /\ pc = "cancelret"
    /\ cancelReturn' = "clean"
    /\ pc' = "loop"
    /\ retries' = retries - 1
    /\ UNCHANGED <<unitVars, fsVars, queueVars, all_done, any_error, user_cancel,
                   scheduled, ci, broken, faults, urlDown, streamReqs, writes,
                   urlReqs, resubmits, rescans, reported, preVars, earlyCancel,
                   orphans, dirCreated>>

\* download_asset_sync after the loop: return False, or rename_downloads
S_After ==
    /\ pc = "after"
    /\ IF ~all_done \/ reported = "error" \/ cancelled
       THEN UNCHANGED <<fsVars, status, faults, urlDown, reported>>
       ELSE \E denied \in SUBSET A_NeedRename :
            /\ A_RenameDownloads(denied)
            /\ reported' = IF A_RenameFailed(denied) # {} THEN "error" ELSE "ok"
    /\ pc' = "done"
    /\ afut' = "done"
    /\ UNCHANGED <<fut, wpc, size_downloaded, stream_size, dretries, inQueue,
                   cancelled, retries, all_done, any_error, user_cancel, scheduled,
                   ci, broken, streamReqs, writes>>
    /\ UNCHANGED <<urlReqs, resubmits, rescans, cancelReturn, preVars,
                   earlyCancel, orphans, dirCreated>>

\* ----------------------------------------- the asset pool (thread manager)
\* download_asset_thread, download_asset and thread_download_asset run through
\* run_threaded(tm.PoolKeys.ASSET_DL, MAX_PARALLEL_ASSET_DOWNLOADS): the thread
\* manager queues the call in a pool of that many threads.
Assets == 1..NumAssets

RunningAssets == {a \in Assets : slot[a] = "running"}

\* a thread of the pool is free, whatever the number of running routines
PoolHasFreeThread_Unbounded == TRUE

\* a thread of the pool is free
PoolHasFreeThread == Cardinality(RunningAssets) < MAX_PARALLEL_ASSET_DOWNLOADS

\* a download is requested: queue_thread returns the routine's future
P_Queue(a) ==
    /\ slot[a] \in {"none", "done", "cancelled"}
    /\ slot' = [slot EXCEPT ![a] = "pending"]
    /\ UNCHANGED <<downloadVars, indexVars, libVars>>

\* a free thread of the pool takes the routine
P_Start(a) ==
    /\ slot[a] = "pending"
    /\ PoolHasFreeThread
    /\ slot' = [slot EXCEPT ![a] = "running"]
    /\ UNCHANGED <<downloadVars, indexVars, libVars>>

\* the routine returns
P_Finish(a) ==
    /\ slot[a] = "running"
    /\ slot' = [slot EXCEPT ![a] = "done"]
    /\ UNCHANGED <<downloadVars, indexVars, libVars>>

\* future.cancel() on a routine that waits for a thread
P_Cancel(a) ==
    /\ slot[a] = "pending"
    /\ slot' = [slot EXCEPT ![a] = "cancelled"]
    /\ UNCHANGED <<downloadVars, indexVars, libVars>>

\* ------------------------------------------------- the Local Asset Index
\* AssetIndex keeps all_assets (asset_id -> AssetData) and cached_queries.
\* Its methods are called from the threads of different pools (purchase_asset
\* runs in the INTERACTIVE pool, update_asset_data in the download routine's
\* thread); no method takes a lock, so the statements of two calls interleave.
Ids == 1..NumIds
AssetNames == {"Bricks", "Rocks"}
AssetTypes == {"Textures", "Models"}
Tabs == {"my_assets"}
IndexThreads == {"asset_dl", "interactive"}

\* an AssetData as update_from_directory builds it for update_asset, and as
\* construct_asset builds it for load_asset from the response to a query of
\* another tab than "my_assets": is_purchased is None
AssetRecords == [asset_id : Ids, asset_name : AssetNames,
                 asset_type : AssetTypes, is_purchased : {"None"}]

\* the locals of a thread that is in no index method
NoCall == [asset_id |-> 0, asset_name |-> "", asset_type |-> "",
           is_purchased |-> "None", key |-> 0]
\* asset_data, with whether the object it names is the one in all_assets
NoRef == [asset_name |-> "", asset_type |-> "", stored |-> FALSE]
NoBinding == <<"", "">>
NoRequest == [kind |-> "", tok |-> 0]
NoCacheFile == [exists |-> FALSE, gzip |-> FALSE, list |-> <<>>]

\* the AssetData object that a call stores: a new object per call
NewAssetData(arg) ==
    [asset_name |-> arg.asset_name, asset_type |-> arg.asset_type,
     is_purchased |-> arg.is_purchased, purchased_at |-> "None"]

\* self.all_assets[asset_id] = asset_data
StoreAsset(i, rec) ==
    [j \in DOMAIN all_assets \cup {i} |-> IF j = i THEN rec ELSE all_assets[j]]

\* AssetData.update(asset_data_new): any non-None entry overwrites the old one
AssetDataUpdate(old, new) ==
    [old EXCEPT !.asset_name = new.asset_name,
                !.asset_type = new.asset_type,
                !.is_purchased = IF new.is_purchased = "None" THEN @
                                 ELSE new.is_purchased]

\* update_asset without its check of the name
NameMismatch_Ignored(old, new) == FALSE

\* update_asset: "if asset_data.asset_name != asset_data_new.asset_name"
NameMismatch(old, new) == old.asset_name # new.asset_name

\* update_asset's three checks, each of which raises ValueError
Mismatch(key, old, new) ==
    \/ key # new.asset_id
    \/ NameMismatch(old, new)
    \/ old.asset_type # new.asset_type

\* a thread that is in no index method calls one
IdleCall(t) ==
    /\ ipc[t] = "idle"
    /\ iops < MaxIndexOps
    /\ iops' = iops + 1

\* the method returns r, or raises r
IndexReturn(t, r) ==
    /\ ipc' = [ipc EXCEPT ![t] = "idle"]
    /\ iresult' = r
    /\ iarg' = [iarg EXCEPT ![t] = NoCall]
    /\ asset_data' = [asset_data EXCEPT ![t] = NoRef]

\* the thread goes on to the statement at p
IndexGoto(t, p) ==
    /\ ipc' = [ipc EXCEPT ![t] = p]
    /\ UNCHANGED <<iresult, iarg, asset_data>>

\* mark_purchased: "if asset_id not in self.all_assets: return"
I_MarkPurchased(t, i) ==
    /\ IdleCall(t)
    /\ IF i \notin DOMAIN all_assets
       THEN IndexReturn(t, "returned")
       ELSE /\ ipc' = [ipc EXCEPT ![t] = "mp_set"]
            /\ iarg' = [iarg EXCEPT ![t] = [NoCall EXCEPT !.key = i]]
            /\ UNCHANGED <<iresult, asset_data>>
    /\ UNCHANGED <<all_assets, cached_queries>>
    /\ UNCHANGED <<downloadVars, poolVars, libVars, bound>>

\* mark_purchased: "self.all_assets[asset_id].is_purchased = True"
I_MpSet(t) ==
    /\ ipc[t] = "mp_set"
    /\ IF iarg[t].key \notin DOMAIN all_assets
       THEN /\ IndexReturn(t, "KeyError")
            /\ UNCHANGED all_assets
       ELSE /\ all_assets' = [all_assets EXCEPT ![iarg[t].key].is_purchased = "True"]
            /\ IndexGoto(t, "mp_stamp")
    /\ UNCHANGED <<cached_queries, iops>>
    /\ UNCHANGED <<downloadVars, poolVars, libVars, bound>>

\* mark_purchased: "self.all_assets[asset_id].purchased_at = utc_s_since_epoch"
I_MpStamp(t) ==
    /\ ipc[t] = "mp_stamp"
    /\ IF iarg[t].key \notin DOMAIN all_assets
       THEN /\ IndexReturn(t, "KeyError")
            /\ UNCHANGED all_assets
       ELSE /\ all_assets' = [all_assets EXCEPT ![iarg[t].key].purchased_at = "set"]
            /\ IndexReturn(t, "returned")
    /\ UNCHANGED <<cached_queries, iops>>
    /\ UNCHANGED <<downloadVars, poolVars, libVars, bound>>

\* load_asset: "if asset_id not in self.all_assets", then either branch
I_LoadAsset(t, rec) ==
    /\ IdleCall(t)
    /\ iarg' = [iarg EXCEPT ![t] =
                   [asset_id |-> rec.asset_id, asset_name |-> rec.asset_name,
                    asset_type |-> rec.asset_type,
                    is_purchased |-> rec.is_purchased,
                    key |-> rec.asset_id]]
    /\ ipc' = [ipc EXCEPT ![t] = IF rec.asset_id \notin DOMAIN all_assets
                                 THEN "la_store" ELSE "ua_enter"]
    /\ UNCHANGED <<iresult, asset_data, all_assets, cached_queries>>
    /\ UNCHANGED <<downloadVars, poolVars, libVars, bound>>

\* the objects under the asset ids in S leave all_assets: a thread that holds
\* one of them in asset_data holds an object that is not in the index
Detach(S, t) ==
    [o \in IndexThreads |->
        IF o = t THEN NoRef
        ELSE IF iarg[o].key \in S THEN [asset_data[o] EXCEPT !.stored = FALSE]
        ELSE asset_data[o]]

\* load_asset: "self.all_assets[asset_id] = asset_data"
I_LaStore(t) ==
    /\ ipc[t] = "la_store"
    /\ all_assets' = StoreAsset(iarg[t].key, NewAssetData(iarg[t]))
    /\ bound' = [bound EXCEPT ![iarg[t].key] =
                    IF @ = NoBinding
                    THEN <<iarg[t].asset_name, iarg[t].asset_type>> ELSE @]
    /\ ipc' = [ipc EXCEPT ![t] = "idle"]
    /\ iresult' = "returned"
    /\ iarg' = [iarg EXCEPT ![t] = NoCall]
    /\ asset_data' = Detach({iarg[t].key}, t)
    /\ UNCHANGED <<cached_queries, iops>>
    /\ UNCHANGED <<downloadVars, poolVars, libVars>>

\* update_asset(asset_id, asset_data_new), called by itself: the call and
\* "if asset_id not in self.all_assets: return"
I_UpdateAsset(t, i, rec) ==
    /\ IdleCall(t)
    /\ IF i \notin DOMAIN all_assets
       THEN IndexReturn(t, "returned")
       ELSE /\ ipc' = [ipc EXCEPT ![t] = "ua_read"]
            /\ iarg' = [iarg EXCEPT ![t] =
                           [asset_id |-> rec.asset_id,
                            asset_name |-> rec.asset_name,
                            asset_type |-> rec.asset_type,
                            is_purchased |-> rec.is_purchased,
                            key |-> i]]
            /\ UNCHANGED <<iresult, asset_data>>
    /\ UNCHANGED <<all_assets, cached_queries>>
    /\ UNCHANGED <<downloadVars, poolVars, libVars, bound>>

\* update_asset called by load_asset: "if asset_id not in self.all_assets"
I_UaEnter(t) ==
    /\ ipc[t] = "ua_enter"
    /\ IF iarg[t].key \notin DOMAIN all_assets
       THEN IndexReturn(t, "returned")
       ELSE IndexGoto(t, "ua_read")
    /\ UNCHANGED <<all_assets, cached_queries, iops>>
    /\ UNCHANGED <<downloadVars, poolVars, libVars, bound>>

\* update_asset: "asset_data = self.all_assets[asset_id]"
I_UaRead(t) ==
    /\ ipc[t] = "ua_read"
    /\ IF iarg[t].key \notin DOMAIN all_assets
       THEN IndexReturn(t, "KeyError")
       ELSE /\ ipc' = [ipc EXCEPT ![t] = "ua_apply"]
            /\ asset_data' = [asset_data EXCEPT ![t] =
                   [asset_name |-> all_assets[iarg[t].key].asset_name,
                    asset_type |-> all_assets[iarg[t].key].asset_type,
                    stored |-> TRUE]]
            /\ UNCHANGED <<iresult, iarg>>
    /\ UNCHANGED <<all_assets, cached_queries, iops>>
    /\ UNCHANGED <<downloadVars, poolVars, libVars, bound>>

\* update_asset: the three checks, each raising ValueError, and then
\* "asset_data.update(asset_data_new, purge_maps)" on the object it holds
I_UaApply(t) ==
    /\ ipc[t] = "ua_apply"
    /\ IF Mismatch(iarg[t].key, asset_data[t], iarg[t])
       THEN /\ IndexReturn(t, "ValueError")
            /\ UNCHANGED all_assets
       ELSE /\ all_assets' =
                   IF asset_data[t].stored
                   THEN [all_assets EXCEPT ![iarg[t].key] =
                            AssetDataUpdate(@, iarg[t])]
                   ELSE all_assets
            /\ IndexReturn(t, "returned")
    /\ UNCHANGED <<cached_queries, iops>>
    /\ UNCHANGED <<downloadVars, poolVars, libVars, bound>>

\* flush: "self.cached_queries = {}"
I_Flush(t, all) ==
    /\ IdleCall(t)
    /\ cached_queries' = {}
    /\ IF all
       THEN /\ ipc' = [ipc EXCEPT ![t] = "fl_assets"]
            /\ UNCHANGED <<iresult, iarg, asset_data>>
       ELSE IndexReturn(t, "returned")
    /\ UNCHANGED all_assets
    /\ UNCHANGED <<downloadVars, poolVars, libVars, bound>>

\* flush(all_assets=True): "self.all_assets = {}"
I_FlAssets(t) ==
    /\ ipc[t] = "fl_assets"
    /\ all_assets' = [j \in {} |-> NoRef]
    /\ ipc' = [ipc EXCEPT ![t] = "idle"]
    /\ iresult' = "returned"
    /\ iarg' = [iarg EXCEPT ![t] = NoCall]
    /\ asset_data' = Detach(Ids, t)
    /\ UNCHANGED <<cached_queries, iops>>
    /\ UNCHANGED <<downloadVars, poolVars, libVars, bound>>

\* store_query: "self.cached_queries[query_tuple] = asset_ids"
I_StoreQuery(t, tab) ==
    /\ IdleCall(t)
    /\ cached_queries' = cached_queries \cup {tab}
    /\ IndexReturn(t, "returned")
    /\ UNCHANGED all_assets
    /\ UNCHANGED <<downloadVars, poolVars, libVars, bound>>

\* ------------------------------------------------------------ behaviours
\* the library before the download: every file of the asset absent, or
\* complete under its temp name, its final name, or both
PreFiles == {<<NoFile, NoFile>>, <<SizeExpected, NoFile>>,
             <<NoFile, SizeExpected>>, <<SizeExpected, SizeExpected>>}

\* the state before the download request, for an asset of n files handled by
\* orchestrator v in an environment that injects up to max failures of the
\* kinds given
InitWith(n, v, kinds, max, pre) ==
    /\ nfiles = n
    /\ variant = v
    /\ envFaults = kinds
    /\ budget = max
    /\ status = [u \in 1..n |-> INITIALIZED]
    /\ fut = [u \in 1..n |-> "none"]
    /\ wpc = [u \in 1..n |-> "begin"]
    /\ size_downloaded = [u \in 1..n |-> 0]
    /\ stream_size = [u \in 1..n |-> 0]
    /\ dretries = [u \in 1..n |-> MAX_RETRIES_PER_FILE]
    /\ temp = [u \in 1..n |-> pre[1]]
    /\ final = [u \in 1..n |-> pre[2]]
    /\ preTemp = temp
    /\ preFinal = final
    /\ inQueue = FALSE
    /\ cancelled = FALSE
    /\ afut = "none"
    /\ pc = "idle"
    /\ retries = 0
    /\ all_done = FALSE
    /\ any_error = FALSE
    /\ user_cancel = FALSE
    /\ scheduled = FALSE
    /\ ci = 1
    /\ faults = 0
    /\ urlDown = FALSE
    /\ urlReqs = 0
    /\ streamReqs = [u \in 1..n |-> FALSE]
    /\ writes = [u \in 1..n |-> FALSE]
    /\ resubmits = [u \in 1..n |-> 0]
    /\ rescans = 0
    /\ reported = "none"
    /\ cancelReturn = "none"
    /\ earlyCancel = FALSE
    /\ orphans = FALSE
    /\ dirCreated = FALSE
    /\ broken = [u \in 1..n |-> FALSE]
    /\ slot = [a \in 1..NumAssets |-> "none"]
    /\ all_assets = [j \in {} |-> NoRef]
    /\ cached_queries = {}
    /\ ipc = [t \in IndexThreads |-> "idle"]
    /\ iarg = [t \in IndexThreads |-> NoCall]
    /\ asset_data = [t \in IndexThreads |-> NoRef]
    /\ iresult = "none"
    /\ iops = 0
    /\ bound = [i \in 1..NumIds |-> NoBinding]
    /\ dd_caller = "none"
    /\ dd_sizes = <<>>
    /\ dd_avail = {}
    /\ dd_result = <<>>
    /\ token = 0
    /\ invalidated = FALSE
    /\ areq = [t \in IndexThreads |-> NoRequest]
    /\ revoked = {}
    /\ unauthorized = {}
    /\ invalidations = [k \in 1..MaxTokens |-> 0]
    /\ lib = [d \in {"primary", "secondary"} |-> {}]
    /\ s_type = ""
    /\ s_maps = {}
    /\ s_meshes = {}
    /\ s_sizes = {}
    /\ s_local = FALSE
    /\ s_op = "none"
    /\ s_dir = ""
    /\ s_ret = FALSE
    /\ s_update = [set |-> FALSE, maps |-> {}, meshes |-> {}, sizes |-> {}]
    /\ c_assets = <<>>
    /\ c_queries = {}
    /\ cache_file = NoCacheFile
    /\ c_saved = <<>>
    /\ c_op = "none"
    /\ c_removed = {}
    /\ c_ops = 0
    /\ q_store = "none"
    /\ queue_jobs = <<>>
    /\ jobs_in_flight = [t \in {"GET_ASSETS", "DOWNLOAD_THUMB"} |-> <<>>]
    /\ queue_jobs_done = <<>>
    /\ job_future = [j \in 1..NumJobs |-> "none"]
    /\ job_cb = [j \in 1..NumJobs |-> FALSE]
    /\ job_sub = [j \in 1..NumJobs |-> "new"]
    /\ job_cancel = [j \in 1..NumJobs |-> "none"]
    /\ cnt_done = [j \in 1..NumJobs |-> 0]
    /\ sch = [pc |-> "get", job |-> 0]
    /\ col = [pc |-> "get", job |-> 0]
    /\ caller = [pc |-> "idle", job |-> 0, type |-> "", ti |-> 1, i |-> 1,
                 snap |-> {}, added |-> FALSE]
    /\ waits = 0

Init ==
    \E v \in {"toolbox", "addon"}, pre \in PreFiles :
        InitWith(NumFiles, v, EnvFaultKinds, MaxFaults, pre)

InitToolbox == Init /\ variant = "toolbox"

InitAddon == Init /\ variant = "addon"

\* an asset of RetryFiles files, none of them on disk, downloaded by the
\* toolbox while at most one stream request fails, with an expired URL
InitRetry ==
    InitWith(RetryFiles, "toolbox", {ERR_URL_EXPIRED}, 1, <<NoFile, NoFile>>)

NextToolbox ==
    \/ QueueDownload
    \/ CancelDownload
    \/ RoutineStart
    \/ Worker
    \/ T_TopCheck
    \/ T_Loop
    \/ T_Poll
    \/ T_CancelWait
    \/ T_CancelReturn
    \/ T_After
    \/ T_Rescan
    \/ T_Cleanup

NextAddon ==
    \/ QueueDownload
    \/ Q_StoreFuture
    \/ CancelDownload
    \/ RoutineStart
    \/ Worker
    \/ A_TopCheck
    \/ A_MakeDirs
    \/ A_Loop
    \/ A_Poll
    \/ A_CancelWait
    \/ A_CancelReturn
    \/ A_After
    \/ A_Rescan
    \/ A_Cleanup

Next ==
    \/ variant = "toolbox" /\ NextToolbox
    \/ variant = "addon" /\ NextAddon

InitSync ==
    \E pre \in PreFiles : InitWith(NumFiles, "sync", EnvFaultKinds, MaxFaults, pre)

NextSync ==
    \/ S_Start
    \/ S_Cancel
    \/ Worker
    \/ S_TopCheck
    \/ S_MakeDirs
    \/ S_Loop
    \/ S_Request
    \/ S_Poll
    \/ A_CancelWait
    \/ S_CancelReturn
    \/ S_After

\* the two download routines of PoliigonAddon
InitAddonSync == InitAddon \/ InitSync

NextAddonSync ==
    \/ variant = "addon" /\ NextAddon
    \/ variant = "sync" /\ NextSync

\* download requests for NumAssets assets
InitPool == InitWith(NumFiles, "pool", {}, 0, <<NoFile, NoFile>>)

NextPool ==
    \E a \in Assets :
        \/ P_Queue(a)
        \/ P_Start(a)
        \/ P_Finish(a)
        \/ P_Cancel(a)

\* the toolbox without a cancel request and with workers that fail in their
\* stream request only
WorkerRetry ==
    \E u \in Units :
        \/ WorkerBegin(u)
        \/ WorkerOngoing(u)
        \/ WorkerChunk(u)
        \/ WorkerStreamEnd(u)

NextRetry ==
    \/ QueueDownload
    \/ RoutineStart
    \/ WorkerRetry
    \/ T_TopCheck
    \/ T_Loop
    \/ T_Poll
    \/ T_After
    \/ T_Rescan
    \/ T_Cleanup

\* ---------------------------------------------------- get_download_data
\* assets.SIZES, in its order, without the K sizes between 4K and 8K and
\* above 8K
SIZES == <<"1K", "2K", "4K", "8K", "HIRES", "WM">>
\* c_Toolbox.vSizes, shortened the same way
vSizes == <<"1K", "2K", "4K", "8K", "HIRES">>
SizeNames == {SIZES[i] : i \in DOMAIN SIZES}

\* [size for size in sizes if size in sizes_data]
SizesIn(sizes, sizes_data) == SelectSeq(sizes, LAMBDA z : z \in sizes_data)

\* for size in reversed(order): if size in sizes_data: [size]; break
ReversedScan(order, sizes_data) ==
    LET hits == {i \in DOMAIN order : order[i] \in sizes_data}
    IN  IF hits = {} THEN <<>>
        ELSE <<order[CHOOSE i \in hits : \A j \in hits : j <= i]>>

\* PoliigonAddon.get_download_data: the sizes of the request
AddonSizes(sizes, sizes_data) ==
    IF SizesIn(sizes, sizes_data) # <<>> THEN SizesIn(sizes, sizes_data)
    ELSE IF ReversedScan(SIZES, sizes_data) # <<>> THEN ReversedScan(SIZES, sizes_data)
    ELSE <<SIZES[1]>>

\* c_Toolbox.get_download_data: the sizes of the request
ToolboxSizes(sizes, sizes_data) ==
    IF SizesIn(sizes, sizes_data) # <<>> THEN SizesIn(sizes, sizes_data)
    ELSE ReversedScan(vSizes, sizes_data)

\* PoliigonAddon.get_download_data(asset_data, size): one size is asked for,
\* the caller's or the one of the settings
A_GetDownloadData ==
    \E z \in SizeNames, avail \in SUBSET SizeNames :
        \* incl_watermarked = size == "WM"
        /\ "WM" \in avail => z = "WM"
        /\ dd_caller' = "addon"
        /\ dd_sizes' = <<z>>
        /\ dd_avail' = avail
        /\ dd_result' = AddonSizes(<<z>>, avail)
        /\ UNCHANGED <<downloadVars, poolVars, indexVars, authVars, scanVars, cacheVars,
                   rcVars>>

\* c_Toolbox.get_download_data(asset_data, size): an HDRI may ask for the
\* size of the light and the size of the background
T_GetDownloadData ==
    \E z \in SizeNames, bg \in {"", "1K"}, avail \in SUBSET (SizeNames \ {"WM"}) :
        LET sizes == IF bg = "" \/ bg = z THEN <<z>> ELSE <<z, bg>>
        IN  /\ dd_caller' = "toolbox"
            /\ dd_sizes' = sizes
            /\ dd_avail' = avail
            /\ dd_result' = ToolboxSizes(sizes, avail)
            /\ UNCHANGED <<downloadVars, poolVars, indexVars, authVars, scanVars, cacheVars,
                   rcVars>>

InitSizes == InitWith(NumFiles, "sizes", {}, 0, <<NoFile, NoFile>>)

NextSizes ==
    \/ A_GetDownloadData
    \/ T_GetDownloadData

SpecSizes == InitSizes /\ [][NextSizes]_vars

\* ------------------------------------------- PoliigonConnector, the token
Tokens == 1..MaxTokens
ApiThreads == IndexThreads
RequestKinds == {"url", "stream"}

\* log_in: a successful login stores the access token of the response
Auth_LogIn ==
    /\ token = 0
    /\ \E k \in Tokens :
          /\ k \notin unauthorized
          /\ \A j \in Tokens : j < k => j \in unauthorized
          /\ token' = k
    /\ invalidated' = FALSE
    /\ UNCHANGED <<areq, revoked, unauthorized, invalidations>>
    /\ UNCHANGED <<downloadVars, poolVars, indexVars, sizeVars, scanVars, cacheVars,
                   rcVars>>

\* the server stops accepting a token (expired, or logged out elsewhere)
Auth_Revoke ==
    /\ token # 0
    /\ token \notin revoked
    /\ revoked' = revoked \cup {token}
    /\ UNCHANGED <<token, invalidated, areq, unauthorized, invalidations>>
    /\ UNCHANGED <<downloadVars, poolVars, indexVars, sizeVars, scanVars, cacheVars,
                   rcVars>>

\* _request_authenticated up to the request being sent (without a token it
\* returns ERR_NOT_AUTHORIZED at once), or _request_stream of a download URL
\* that an authenticated request handed out
Auth_Send(t) ==
    /\ areq[t] = NoRequest
    /\ token # 0
    /\ \E kind \in RequestKinds :
          areq' = [areq EXCEPT ![t] = [kind |-> kind, tok |-> token]]
    /\ UNCHANGED <<token, invalidated, revoked, unauthorized, invalidations>>
    /\ UNCHANGED <<downloadVars, poolVars, indexVars, sizeVars, scanVars, cacheVars,
                   rcVars>>

\* _on_invalidated called for every 401 response
Invalidate_EveryResponse(k) == [invalidations EXCEPT ![k] = @ + 1]

\* the response arrives: _request_url (do_invalidate is True on every
\* authenticated request) and _request_stream
Auth_Response(t) ==
    /\ areq[t] # NoRequest
    /\ areq' = [areq EXCEPT ![t] = NoRequest]
    /\ IF areq[t].tok \in revoked
       THEN \* status 401
            /\ token' = 0
            /\ invalidated' = TRUE
            /\ unauthorized' = unauthorized \cup {areq[t].tok}
            /\ invalidations' = IF areq[t].kind = "url"
                                THEN Invalidate_EveryResponse(areq[t].tok)
                                ELSE invalidations
       ELSE UNCHANGED <<token, invalidated, unauthorized, invalidations>>
    /\ UNCHANGED revoked
    /\ UNCHANGED <<downloadVars, poolVars, indexVars, sizeVars, scanVars, cacheVars,
                   rcVars>>

InitAuth == InitWith(NumFiles, "auth", {}, 0, <<NoFile, NoFile>>)

NextAuth ==
    \/ Auth_LogIn
    \/ Auth_Revoke
    \/ \E t \in ApiThreads : Auth_Send(t)
    \/ \E t \in ApiThreads : Auth_Response(t)

SpecAuth == InitAuth /\ [][NextAuth]_vars

\* ------------------------------------- AssetIndex, the library directories
LibraryDirs == <<"primary", "secondary">>
ScanTypes == {"TEXTURE", "MODEL", "HDRI", "BRUSH"}

\* a filename: the parts of its base name between underscores, and its
\* suffix as os.path.splitext gives it, in pieces
Img2K == [parts |-> <<"Bricks", "COL", "2K">>, suffix |-> <<".jpg">>]
Img4K == [parts |-> <<"Bricks", "NRM", "4K">>, suffix |-> <<".jpg">>]
MeshFbx == [parts |-> <<"Bricks", "LOD1">>, suffix |-> <<".fbx">>]

\* FileDownload.get_filename(temp=True): filename + DOWNLOAD_TEMP_SUFFIX
TempName(f) == [f EXCEPT !.suffix = Append(@, "dl")]

\* the files a library directory may hold for the asset
ScanFiles == {Img2K, TempName(Img4K), MeshFbx, TempName(MeshFbx)}

\* suffix.endswith("dl")
IsTemp(f) == f.suffix[Len(f.suffix)] = "dl"

\* suffix in [".jpg", ".jpeg", ".png", ".tif", ".exr", ".psd"]: the file gets
\* a map type (DIFF where its name has none)
IsImage(f) == f.suffix \in {<<".jpg">>, <<".png">>, <<".exr">>}

\* suffix == ".fbx", ".blend", ".c4d", ".max"
IsMesh(f) == f.suffix \in {<<".fbx">>, <<".blend">>}

\* _size_from_filename_parts
SizeOfFile(f) == {f.parts[i] : i \in DOMAIN f.parts} \cap SizeNames

\* _analyze_files: what the scan of directory d collects
FoundMaps(d) == {[filename |-> f, directory |-> d] : f \in {g \in lib[d] : IsImage(g)}}
FoundMeshes(d) ==
    {[filename |-> f, directory |-> d] : f \in {g \in lib[d] : ~IsImage(g) /\ IsMesh(g)}}
FoundSizes(d) == UNION {SizeOfFile(f) : f \in lib[d]}

NoUpdate == [set |-> FALSE, maps |-> {}, meshes |-> {}, sizes |-> {}]

\* _prepare_*_update_asset_data: the asset_data_update of a scan of d.
\* "set" says that the type data was assigned to it.
PreparedUpdate(ty, d) ==
    IF ty = "TEXTURE"
    THEN [set |-> TRUE, maps |-> FoundMaps(d), meshes |-> {}, sizes |-> FoundSizes(d)]
    ELSE IF FoundMaps(d) = {} THEN NoUpdate
    ELSE IF ty = "MODEL"
    THEN [set |-> TRUE, maps |-> FoundMaps(d), meshes |-> FoundMeshes(d),
          sizes |-> FoundSizes(d)]
    ELSE [set |-> TRUE, maps |-> FoundMaps(d), meshes |-> {}, sizes |-> {}]

\* files_found
FilesFound(ty, d) ==
    /\ FoundMaps(d) # {}
    /\ ty = "TEXTURE" => FoundSizes(d) # {"WM"}

\* the asset's record: its type data and is_local
ScanRecord == [maps |-> s_maps, meshes |-> s_meshes, sizes |-> s_sizes, local |-> s_local]

\* AssetData.update: the type data of the update, where assigned, overwrites
\* the stored one; a Model keeps its sizes
ScanDataUpdate(ty, rec, upd) ==
    IF ~upd.set THEN rec
    ELSE [rec EXCEPT !.maps = upd.maps,
                     !.meshes = upd.meshes,
                     !.sizes = IF ty = "TEXTURE" THEN upd.sizes ELSE @]

\* update_from_directory(asset_id, d) on record rec
UpdatedFromDirectory(ty, rec, d) ==
    [ScanDataUpdate(ty, rec, PreparedUpdate(ty, d))
        EXCEPT !.local = IF FilesFound(ty, d) THEN TRUE ELSE @]

\* the environment puts a file of the asset into a library directory
Lib_AddFile(d, f) ==
    /\ f \notin lib[d]
    /\ lib' = [lib EXCEPT ![d] = @ \cup {f}]
    /\ s_op' = "fs"
    /\ UNCHANGED <<s_type, s_maps, s_meshes, s_sizes, s_local, s_dir, s_ret, s_update>>
    /\ UNCHANGED <<downloadVars, poolVars, indexVars, sizeVars, authVars, cacheVars,
                   rcVars>>

\* populate_assets with a my_assets query: the asset is stored, purchased
Scan_Populate(ty) ==
    /\ s_type = ""
    /\ s_type' = ty
    /\ s_op' = "populate"
    /\ UNCHANGED <<lib, s_maps, s_meshes, s_sizes, s_local, s_dir, s_ret, s_update>>
    /\ UNCHANGED <<downloadVars, poolVars, indexVars, sizeVars, authVars, cacheVars,
                   rcVars>>

\* update_from_directory(asset_id, dir_asset)
Scan_UpdateFromDirectory(d) ==
    /\ s_type # ""
    /\ LET rec == UpdatedFromDirectory(s_type, ScanRecord, d)
       IN  /\ s_maps' = rec.maps
           /\ s_meshes' = rec.meshes
           /\ s_sizes' = rec.sizes
           /\ s_local' = rec.local
    /\ s_update' = PreparedUpdate(s_type, d)
    /\ s_ret' = FilesFound(s_type, d)
    /\ s_dir' = d
    /\ s_op' = "update_from_directory"
    /\ UNCHANGED <<lib, s_type>>
    /\ UNCHANGED <<downloadVars, poolVars, indexVars, sizeVars, authVars, cacheVars,
                   rcVars>>

\* the scans of update_all_local_assets over the directories dirs, in their
\* order: a library that has no directory of the asset is passed over
RECURSIVE ScanAll(_, _, _)
ScanAll(ty, rec, dirs) ==
    IF dirs = <<>> THEN rec
    ELSE ScanAll(ty,
                 IF lib[Head(dirs)] = {} THEN rec
                 ELSE UpdatedFromDirectory(ty, rec, Head(dirs)),
                 Tail(dirs))

\* reversed(library_dirs)
Reversed(dirs) == [i \in DOMAIN dirs |-> dirs[Len(dirs) + 1 - i]]

\* update_all_local_assets([primary, secondary])
Scan_UpdateAll ==
    /\ s_type # ""
    /\ LET rec == ScanAll(s_type, [ScanRecord EXCEPT !.local = FALSE],
                          Reversed(LibraryDirs))
       IN  /\ s_maps' = rec.maps
           /\ s_meshes' = rec.meshes
           /\ s_sizes' = rec.sizes
           /\ s_local' = rec.local
    /\ s_op' = "update_all_local_assets"
    /\ UNCHANGED <<lib, s_type, s_dir, s_ret, s_update>>
    /\ UNCHANGED <<downloadVars, poolVars, indexVars, sizeVars, authVars, cacheVars,
                   rcVars>>

InitScan == InitWith(NumFiles, "scan", {}, 0, <<NoFile, NoFile>>)

NextScan ==
    \/ \E d \in {"primary", "secondary"}, f \in ScanFiles : Lib_AddFile(d, f)
    \/ \E ty \in ScanTypes : Scan_Populate(ty)
    \/ \E d \in {"primary", "secondary"} : Scan_UpdateFromDirectory(d)
    \/ Scan_UpdateAll

SpecScan == InitScan /\ [][NextScan]_vars

\* ---------------------------------------- AssetIndex, save and load cache
\* the asset's name, given with its id by the query that lists it
CacheName(i) == IF i = 1 THEN "Bricks" ELSE "Rocks"
CacheFileNames == {"preview.jpg"}

\* construct_asset: the AssetData of an asset that was just listed
ListedAsset(i, ty) ==
    [asset_id |-> i, asset_type |-> ty, asset_name |-> CacheName(i),
     is_local |-> "None", is_purchased |-> "None", files |-> {}]

\* a set as a list, in some order (the file listing of a type's data)
RECURSIVE ListOf(_)
ListOf(S) ==
    IF S = {} THEN <<>>
    ELSE LET x == CHOOSE y \in S : TRUE IN <<x>> \o ListOf(S \ {x})

\* json.dumps of a tri-state field, and its reading
TriToJson(v) == IF v = "None" THEN "null" ELSE IF v = "True" THEN "true" ELSE "false"
JsonToTri_NullAsFalse(j) == IF j = "true" THEN "True" ELSE "False"
JsonToTri(j) == IF j = "null" THEN "None" ELSE IF j = "true" THEN "True" ELSE "False"

\* the key the file listing of an asset type is stored under
TypeKey(ty) ==
    IF ty = "TEXTURE" THEN "texture" ELSE IF ty = "MODEL" THEN "model"
    ELSE IF ty = "HDRI" THEN "hdri" ELSE "brush"
KeyType(k) ==
    IF k = "texture" THEN "TEXTURE" ELSE IF k = "model" THEN "MODEL"
    ELSE IF k = "hdri" THEN "HDRI" ELSE "BRUSH"

\* asdict(asset_data) as json.dumps writes it
AsDict(rec) ==
    [asset_id |-> rec.asset_id, asset_name |-> rec.asset_name,
     is_local |-> TriToJson(rec.is_local),
     is_purchased |-> TriToJson(rec.is_purchased),
     data |-> [key |-> TypeKey(rec.asset_type), files |-> ListOf(rec.files)]]

\* AssetData._from_dict
FromDict(d) ==
    [asset_id |-> d.asset_id, asset_type |-> KeyType(d.data.key),
     asset_name |-> d.asset_name,
     is_local |-> JsonToTri(d.is_local),
     is_purchased |-> JsonToTri(d.is_purchased),
     files |-> {d.data.files[n] : n \in DOMAIN d.data.files}]

\* asset_list of save_cache: the records of all_assets.values()
AssetList(assets) == [n \in 1..Len(ListOf(DOMAIN assets)) |->
                        AsDict(assets[ListOf(DOMAIN assets)[n]])]

\* all_assets as load_cache builds it from asset_list
LoadedAssets(list) ==
    [i \in {list[n].asset_id : n \in DOMAIN list} |->
        FromDict(list[CHOOSE n \in DOMAIN list :
                        /\ list[n].asset_id = i
                        /\ \A m \in DOMAIN list : list[m].asset_id = i => m <= n])]

\* flush with its parameter ignored
FlushedAssets_Always(assets, all) == <<>>
\* flush: if all_assets: self.all_assets = {}
FlushedAssets(assets, all) == IF all THEN <<>> ELSE assets

\* an operation of the index starts
CacheCall(op) ==
    /\ c_ops < MaxCacheOps
    /\ c_ops' = c_ops + 1
    /\ c_op' = op

\* the operation ends
CacheReturn == c_removed' = DOMAIN c_assets \ DOMAIN c_assets'

\* load_asset(asset_data) / populate_assets for one listed asset: stored if
\* the id is new; update_asset otherwise, which raises ValueError for
\* another type and finds nothing to overwrite in a listed record
Cache_LoadAsset(i, ty) ==
    /\ CacheCall(IF i \in DOMAIN c_assets /\ c_assets[i].asset_type # ty
                 THEN "load_asset ValueError" ELSE "load_asset")
    /\ c_assets' = IF i \in DOMAIN c_assets THEN c_assets
                   ELSE [j \in DOMAIN c_assets \cup {i} |->
                            IF j = i THEN ListedAsset(i, ty) ELSE c_assets[j]]
    /\ UNCHANGED <<c_queries, cache_file, c_saved>>
    /\ CacheReturn
    /\ UNCHANGED <<downloadVars, poolVars, indexVars, sizeVars, authVars, scanVars,
                   rcVars>>

\* update_from_directory(asset_id, dir): KeyError for an absent id; the
\* files found are stored and is_local set
Cache_UpdateFromDirectory(i, found) ==
    /\ CacheCall(IF i \in DOMAIN c_assets THEN "update_from_directory"
                 ELSE "update_from_directory KeyError")
    /\ c_assets' = IF i \notin DOMAIN c_assets THEN c_assets
                   ELSE [c_assets EXCEPT ![i].files = found,
                                         ![i].is_local = IF found # {} THEN "True" ELSE @]
    /\ UNCHANGED <<c_queries, cache_file, c_saved>>
    /\ CacheReturn
    /\ UNCHANGED <<downloadVars, poolVars, indexVars, sizeVars, authVars, scanVars,
                   rcVars>>

\* update_all_local_assets(library_dirs): is_local of the purchased assets
\* is reset, then set where a library holds files of the asset
Cache_UpdateAll(found) ==
    /\ CacheCall("update_all_local_assets")
    /\ c_assets' = [i \in DOMAIN c_assets |->
                      IF c_assets[i].is_purchased # "True" THEN c_assets[i]
                      ELSE [c_assets[i] EXCEPT
                                !.files = IF found # {} THEN found ELSE @,
                                !.is_local = IF found # {} THEN "True" ELSE "False"]]
    /\ UNCHANGED <<c_queries, cache_file, c_saved>>
    /\ CacheReturn
    /\ UNCHANGED <<downloadVars, poolVars, indexVars, sizeVars, authVars, scanVars,
                   rcVars>>

\* mark_purchased(asset_id): KeyError for an absent id
Cache_MarkPurchased(i) ==
    /\ CacheCall(IF i \in DOMAIN c_assets THEN "mark_purchased"
                 ELSE "mark_purchased KeyError")
    /\ c_assets' = IF i \notin DOMAIN c_assets THEN c_assets
                   ELSE [c_assets EXCEPT ![i].is_purchased = "True"]
    /\ UNCHANGED <<c_queries, cache_file, c_saved>>
    /\ CacheReturn
    /\ UNCHANGED <<downloadVars, poolVars, indexVars, sizeVars, authVars, scanVars,
                   rcVars>>

\* store_query(asset_ids, key_query) for a query of the tab
Cache_StoreQuery(tab) ==
    /\ CacheCall("store_query")
    /\ c_queries' = c_queries \cup {tab}
    /\ UNCHANGED <<c_assets, cache_file, c_saved>>
    /\ CacheReturn
    /\ UNCHANGED <<downloadVars, poolVars, indexVars, sizeVars, authVars, scanVars,
                   rcVars>>

\* flush_queries_by_tab(tab)
Cache_FlushQueriesByTab(tab) ==
    /\ CacheCall("flush_queries_by_tab")
    /\ c_queries' = c_queries \ {tab}
    /\ UNCHANGED <<c_assets, cache_file, c_saved>>
    /\ CacheReturn
    /\ UNCHANGED <<downloadVars, poolVars, indexVars, sizeVars, authVars, scanVars,
                   rcVars>>

\* flush(all_assets)
Cache_Flush(all) ==
    /\ CacheCall(IF all THEN "flush all_assets" ELSE "flush")
    /\ c_queries' = {}
    /\ c_assets' = FlushedAssets(c_assets, all)
    /\ UNCHANGED <<cache_file, c_saved>>
    /\ CacheReturn
    /\ UNCHANGED <<downloadVars, poolVars, indexVars, sizeVars, authVars, scanVars,
                   rcVars>>

\* save_cache(use_gzip)
Cache_Save(gz) ==
    /\ CacheCall("save_cache")
    /\ cache_file' = [exists |-> TRUE, gzip |-> gz, list |-> AssetList(c_assets)]
    /\ c_saved' = c_assets
    /\ UNCHANGED <<c_assets, c_queries>>
    /\ CacheReturn
    /\ UNCHANGED <<downloadVars, poolVars, indexVars, sizeVars, authVars, scanVars,
                   rcVars>>

\* load_cache(use_gzip): FileNotFoundError without a file, and an exception
\* of gzip or json for a file written the other way, both before
\* all_assets is touched
Cache_Load(gz) ==
    /\ CacheCall(IF cache_file.exists /\ cache_file.gzip = gz THEN "load_cache"
                 ELSE "load_cache raised")
    /\ c_assets' = IF cache_file.exists /\ cache_file.gzip = gz
                   THEN LoadedAssets(cache_file.list) ELSE c_assets
    /\ UNCHANGED <<c_queries, cache_file, c_saved>>
    /\ CacheReturn
    /\ UNCHANGED <<downloadVars, poolVars, indexVars, sizeVars, authVars, scanVars,
                   rcVars>>

InitCache == InitWith(NumFiles, "cache", {}, 0, <<NoFile, NoFile>>)

NextCache ==
    \/ \E i \in Ids, ty \in ScanTypes : Cache_LoadAsset(i, ty)
    \/ \E i \in Ids, found \in SUBSET CacheFileNames : Cache_UpdateFromDirectory(i, found)
    \/ \E found \in SUBSET CacheFileNames : Cache_UpdateAll(found)
    \/ \E i \in Ids : Cache_MarkPurchased(i)
    \/ \E tab \in Tabs : Cache_StoreQuery(tab)
    \/ \E tab \in Tabs : Cache_FlushQueriesByTab(tab)
    \/ \E all \in BOOLEAN : Cache_Flush(all)
    \/ \E gz \in BOOLEAN : Cache_Save(gz)
    \/ \E gz \in BOOLEAN : Cache_Load(gz)

SpecCache == InitCache /\ [][NextCache]_vars

\* ------------------------------ ApiRemoteControl (api_remote_control.py)
\* The job objects the caller creates; EXIT is the job shutdown() adds.
Jobs == 1..NumJobs
EXIT == 0

\* the job types of jobs_in_flight, in the order wait_for_all visits them
JobTypes == <<"GET_ASSETS", "DOWNLOAD_THUMB">>

\* job_type and params of the job objects: the first two are equal jobs
JobTypeOf(j) == IF j <= 2 THEN JobTypes[1] ELSE JobTypes[2]
ParamsOf(j) == IF j <= 2 THEN 1 ELSE j

\* ApiJob.__eq__
JobEq(a, b) == JobTypeOf(a) = JobTypeOf(b) /\ ParamsOf(a) = ParamsOf(b)

\* the position of the first job of the list equal to j, 0 if there is none
FirstEqual(list, j) ==
    IF \E k \in 1..Len(list) : JobEq(list[k], j)
    THEN CHOOSE k \in 1..Len(list) :
            /\ JobEq(list[k], j)
            /\ \A m \in 1..(k - 1) : ~JobEq(list[m], j)
    ELSE 0

\* list.remove(j): the first equal job leaves the list; a ValueError is
\* swallowed by the callers where the list has none
ListRemove(list, j) ==
    LET k == FirstEqual(list, j) IN
    IF k = 0 THEN list
    ELSE [m \in 1..(Len(list) - 1) |-> IF m < k THEN list[m] ELSE list[m + 1]]

\* the job object j is in jobs_in_flight
InFlight(j) ==
    \E k \in 1..Len(jobs_in_flight[JobTypeOf(j)]) :
        jobs_in_flight[JobTypeOf(j)][k] = j

\* _is_job_already_enqueued
IsJobAlreadyEnqueued(j) == FirstEqual(jobs_in_flight[JobTypeOf(j)], j) # 0

\* the done callback of a job's future: callback_enqueue_done
DonePut(q, j, fires) == IF fires THEN Append(q, j) ELSE q

RcIdle == [pc |-> "idle", job |-> 0, type |-> "", ti |-> 1, i |-> 1,
           snap |-> caller.snap, added |-> caller.added]

\* enqueue_job(job, force), up to its test
RC_Check(j, force) ==
    /\ caller.pc = "idle" /\ job_sub[j] = "new"
    /\ IF ~force /\ IsJobAlreadyEnqueued(j)
       THEN /\ job_sub' = [job_sub EXCEPT ![j] = "skipped"]
            /\ UNCHANGED caller
       ELSE /\ job_sub' = [job_sub EXCEPT ![j] = "checked"]
            /\ caller' = [caller EXCEPT !.pc = IF force THEN "put forced" ELSE "put",
                                        !.job = j]
    /\ UNCHANGED <<queue_jobs, jobs_in_flight, queue_jobs_done, job_future, job_cb,
                   job_cancel, cnt_done, sch, col, waits>>
    /\ UNCHANGED <<downloadVars, poolVars, indexVars, sizeVars, authVars, scanVars,
                   cacheVars>>

\* enqueue_job: self.queue_jobs.put(job)
RC_Put ==
    /\ caller.pc \in {"put", "put forced"}
    /\ queue_jobs' = Append(queue_jobs, caller.job)
    /\ job_sub' = [job_sub EXCEPT ![caller.job] =
                     IF caller.pc = "put" THEN "queued" ELSE "forced"]
    /\ caller' = [caller EXCEPT !.pc = "idle", !.job = 0]
    /\ UNCHANGED <<jobs_in_flight, queue_jobs_done, job_future, job_cb,
                   job_cancel, cnt_done, sch, col, waits>>
    /\ UNCHANGED <<downloadVars, poolVars, indexVars, sizeVars, authVars, scanVars,
                   cacheVars>>

\* shutdown: add_job(JobType.EXIT), then wait_for_all()
RC_Shutdown ==
    /\ caller.pc = "idle"
    /\ waits < MaxWaits
    /\ queue_jobs' = Append(queue_jobs, EXIT)
    /\ caller' = [caller EXCEPT !.pc = "shutdown"]
    /\ UNCHANGED <<jobs_in_flight, queue_jobs_done, job_future, job_cb, job_sub,
                   job_cancel, cnt_done, sch, col, waits>>
    /\ UNCHANGED <<downloadVars, poolVars, indexVars, sizeVars, authVars, scanVars,
                   cacheVars>>

\* the jobs in flight of type t, or all of them
FlightOf(t) == {j \in Jobs : InFlight(j) /\ (t = "all" \/ JobTypeOf(j) = t)}

\* wait_for_all(job_type): the copy of jobs_in_flight, a dict whose lists are
\* the lists of jobs_in_flight themselves
RC_WaitForAll(t) ==
    /\ \/ caller.pc = "idle" /\ waits < MaxWaits
       \/ caller.pc = "shutdown" /\ t = "all"
    /\ waits' = waits + 1
    /\ caller' = [pc |-> "visit", job |-> 0, type |-> t, ti |-> 1, i |-> 1,
                  snap |-> FlightOf(t), added |-> FALSE]
    /\ UNCHANGED <<queue_jobs, jobs_in_flight, queue_jobs_done, job_future, job_cb,
                   job_sub, job_cancel, cnt_done, sch, col>>
    /\ UNCHANGED <<downloadVars, poolVars, indexVars, sizeVars, authVars, scanVars,
                   cacheVars>>

\* the job type _wait_for_type is working on
VisitedType == IF caller.type = "all" THEN JobTypes[caller.ti] ELSE caller.type

\* Future.cancel(): only a future that has not started is cancelled
CancelSucceeds(f) == f \in {"pending", "cancelled"}

\* _wait_for_type, one pass of its loop over the list: the job at the
\* iterator's position is removed from jobs_in_flight and its future is
\* cancelled, or its cancel callback is called; past the end of the list the
\* next type follows, or wait_for_all returns
RC_Visit ==
    /\ caller.pc = "visit"
    /\ LET list == jobs_in_flight[VisitedType] IN
       IF caller.i > Len(list)
       THEN /\ caller' = IF caller.type = "all" /\ caller.ti < Len(JobTypes)
                         THEN [caller EXCEPT !.ti = caller.ti + 1, !.i = 1]
                         ELSE RcIdle
            /\ UNCHANGED <<jobs_in_flight, job_future, job_cancel, queue_jobs_done>>
       ELSE LET j == list[caller.i] IN
            /\ jobs_in_flight' = [jobs_in_flight EXCEPT ![VisitedType] =
                                     ListRemove(list, j)]
            /\ IF job_future[j] = "none"
               THEN /\ caller' = [caller EXCEPT !.i = caller.i + 1]
                    /\ UNCHANGED <<job_future, job_cancel, queue_jobs_done>>
               ELSE IF CancelSucceeds(job_future[j])
               THEN /\ job_future' = [job_future EXCEPT ![j] = "cancelled"]
                    /\ job_cancel' = [job_cancel EXCEPT ![j] = "cancelled"]
                    /\ queue_jobs_done' =
                          DonePut(queue_jobs_done, j,
                                  job_cb[j] /\ job_future[j] = "pending")
                    /\ caller' = [caller EXCEPT !.i = caller.i + 1]
               ELSE /\ job_cancel' = [job_cancel EXCEPT ![j] = "callback"]
                    /\ caller' = [caller EXCEPT !.pc = "wait", !.job = j]
                    /\ UNCHANGED <<job_future, queue_jobs_done>>
    /\ UNCHANGED <<queue_jobs, job_cb, job_sub, cnt_done, sch, col, waits>>
    /\ UNCHANGED <<downloadVars, poolVars, indexVars, sizeVars, authVars, scanVars,
                   cacheVars>>

\* _wait_for_type: job.future.result(timeout) with do_wait and no timeout
RC_Wait ==
    /\ caller.pc = "wait"
    /\ job_future[caller.job] \in {"done", "cancelled"}
    /\ caller' = [caller EXCEPT !.pc = "visit", !.job = 0, !.i = caller.i + 1]
    /\ UNCHANGED <<queue_jobs, jobs_in_flight, queue_jobs_done, job_future, job_cb,
                   job_sub, job_cancel, cnt_done, sch, col, waits>>
    /\ UNCHANGED <<downloadVars, poolVars, indexVars, sizeVars, authVars, scanVars,
                   cacheVars>>

\* _thread_schedule: job = self.queue_jobs.get()
Sch_Get ==
    /\ sch.pc = "get" /\ queue_jobs # <<>>
    /\ queue_jobs' = Tail(queue_jobs)
    /\ sch' = [pc |-> IF Head(queue_jobs) = EXIT THEN "exit" ELSE "flight",
               job |-> Head(queue_jobs)]
    /\ UNCHANGED <<jobs_in_flight, queue_jobs_done, job_future, job_cb, job_sub,
                   job_cancel, cnt_done, col, caller, waits>>
    /\ UNCHANGED <<downloadVars, poolVars, indexVars, sizeVars, authVars, scanVars,
                   cacheVars>>

\* _thread_schedule: the job is appended to jobs_in_flight under the lock
Sch_Flight ==
    /\ sch.pc = "flight"
    /\ jobs_in_flight' = [jobs_in_flight EXCEPT ![JobTypeOf(sch.job)] =
                             Append(@, sch.job)]
    /\ sch' = [sch EXCEPT !.pc = "submit"]
    /\ caller' = [caller EXCEPT !.added = caller.added \/ caller.pc \in {"visit", "wait"}]
    /\ UNCHANGED <<queue_jobs, queue_jobs_done, job_future, job_cb, job_sub,
                   job_cancel, cnt_done, col, waits>>
    /\ UNCHANGED <<downloadVars, poolVars, indexVars, sizeVars, authVars, scanVars,
                   cacheVars>>

\* _thread_schedule: job.future = self._tm.queue_thread(...)
Sch_Submit ==
    /\ sch.pc = "submit"
    /\ job_future' = [job_future EXCEPT ![sch.job] = "pending"]
    /\ sch' = [sch EXCEPT !.pc = "addcb"]
    /\ UNCHANGED <<queue_jobs, jobs_in_flight, queue_jobs_done, job_cb, job_sub,
                   job_cancel, cnt_done, col, caller, waits>>
    /\ UNCHANGED <<downloadVars, poolVars, indexVars, sizeVars, authVars, scanVars,
                   cacheVars>>

\* _thread_schedule: job.future.add_done_callback(cb_done); the callback of
\* a future that is already done or cancelled runs at once
Sch_AddCallback ==
    /\ sch.pc = "addcb"
    /\ job_cb' = [job_cb EXCEPT ![sch.job] = TRUE]
    /\ queue_jobs_done' = DonePut(queue_jobs_done, sch.job,
                                  job_future[sch.job] \in {"done", "cancelled"})
    /\ sch' = [pc |-> "get", job |-> 0]
    /\ UNCHANGED <<queue_jobs, jobs_in_flight, job_future, job_sub, job_cancel,
                   cnt_done, col, caller, waits>>
    /\ UNCHANGED <<downloadVars, poolVars, indexVars, sizeVars, authVars, scanVars,
                   cacheVars>>

\* _thread_schedule with the EXIT job: it is passed on to stop the collector,
\* and the thread ends
Sch_Exit ==
    /\ sch.pc = "exit"
    /\ queue_jobs_done' = Append(queue_jobs_done, EXIT)
    /\ sch' = [pc |-> "exited", job |-> 0]
    /\ UNCHANGED <<queue_jobs, jobs_in_flight, job_future, job_cb, job_sub,
                   job_cancel, cnt_done, col, caller, waits>>
    /\ UNCHANGED <<downloadVars, poolVars, indexVars, sizeVars, authVars, scanVars,
                   cacheVars>>

\* the thread pool starts job.params.thread_execute
Job_Start(j) ==
    /\ job_future[j] = "pending"
    /\ job_future' = [job_future EXCEPT ![j] = "running"]
    /\ UNCHANGED <<queue_jobs, jobs_in_flight, queue_jobs_done, job_cb, job_sub,
                   job_cancel, cnt_done, sch, col, caller, waits>>
    /\ UNCHANGED <<downloadVars, poolVars, indexVars, sizeVars, authVars, scanVars,
                   cacheVars>>

\* thread_execute returns: the future is done and its callbacks run
Job_Finish(j) ==
    /\ job_future[j] = "running"
    /\ job_future' = [job_future EXCEPT ![j] = "done"]
    /\ queue_jobs_done' = DonePut(queue_jobs_done, j, job_cb[j])
    /\ UNCHANGED <<queue_jobs, jobs_in_flight, job_cb, job_sub, job_cancel,
                   cnt_done, sch, col, caller, waits>>
    /\ UNCHANGED <<downloadVars, poolVars, indexVars, sizeVars, authVars, scanVars,
                   cacheVars>>

\* _thread_collect: job = self.queue_jobs_done.get(); the EXIT job ends it
Col_Get ==
    /\ col.pc = "get" /\ queue_jobs_done # <<>>
    /\ queue_jobs_done' = Tail(queue_jobs_done)
    /\ col' = IF Head(queue_jobs_done) = EXIT THEN [pc |-> "exited", job |-> 0]
              ELSE [pc |-> "finish", job |-> Head(queue_jobs_done)]
    /\ UNCHANGED <<queue_jobs, jobs_in_flight, job_future, job_cb, job_sub,
                   job_cancel, cnt_done, sch, caller, waits>>
    /\ UNCHANGED <<downloadVars, poolVars, indexVars, sizeVars, authVars, scanVars,
                   cacheVars>>

\* _thread_collect: job.params.finish(self, job) and job.callback_done(job)
Col_Finish ==
    /\ col.pc = "finish"
    /\ col' = [col EXCEPT !.pc = "release"]
    /\ UNCHANGED <<queue_jobs, jobs_in_flight, queue_jobs_done, job_future, job_cb,
                   job_sub, job_cancel, cnt_done, sch, caller, waits>>
    /\ UNCHANGED <<downloadVars, poolVars, indexVars, sizeVars, authVars, scanVars,
                   cacheVars>>

\* _thread_collect: _release_job(job) and cnt_done
Col_Release ==
    /\ col.pc = "release"
    /\ jobs_in_flight' = [jobs_in_flight EXCEPT ![JobTypeOf(col.job)] =
                             ListRemove(@, col.job)]
    /\ cnt_done' = [cnt_done EXCEPT ![col.job] = @ + 1]
    /\ col' = [pc |-> "get", job |-> 0]
    /\ UNCHANGED <<queue_jobs, queue_jobs_done, job_future, job_cb, job_sub,
                   job_cancel, sch, caller, waits>>
    /\ UNCHANGED <<downloadVars, poolVars, indexVars, sizeVars, authVars, scanVars,
                   cacheVars>>

InitRemote == InitWith(NumFiles, "remote", {}, 0, <<NoFile, NoFile>>)

\* the steps of the scheduler thread, of the collector thread, of the pool
\* threads and of a wait_for_all call that is under way
Sch_Thread == Sch_Get \/ Sch_Flight \/ Sch_Submit \/ Sch_AddCallback \/ Sch_Exit
Col_Thread == Col_Get \/ Col_Finish \/ Col_Release
Job_Thread(j) == Job_Start(j) \/ Job_Finish(j)
RC_Returns ==
    \/ RC_Put
    \/ caller.pc = "shutdown" /\ RC_WaitForAll("all")
    \/ RC_Visit
    \/ RC_Wait

NextRemote ==
    \/ \E j \in Jobs, force \in BOOLEAN : RC_Check(j, force)
    \/ RC_Put
    \/ RC_Shutdown
    \/ \E t \in {"all", JobTypes[1], JobTypes[2]} : RC_WaitForAll(t)
    \/ RC_Visit
    \/ RC_Wait
    \/ Sch_Get
    \/ Sch_Flight
    \/ Sch_Submit
    \/ Sch_AddCallback
    \/ Sch_Exit
    \/ \E j \in Jobs : Job_Start(j)
    \/ \E j \in Jobs : Job_Finish(j)
    \/ Col_Get
    \/ Col_Finish
    \/ Col_Release

SpecRemote == InitRemote /\ [][NextRemote]_vars

\* The remote control with its threads scheduled: the scheduler, the
\* collector and the pool's threads keep running, and a call under way goes
\* on; new calls are not forced.
SpecRemoteFair ==
    /\ SpecRemote
    /\ WF_vars(Sch_Thread)
    /\ WF_vars(Col_Thread)
    /\ \A j \in Jobs : WF_vars(Job_Thread(j))
    /\ WF_vars(RC_Returns)

\* c_Toolbox.download_asset_thread alone, PoliigonAddon.download_asset alone,
\* and either of the two
SpecToolbox == InitToolbox /\ [][NextToolbox]_vars
SpecAddon == InitAddon /\ [][NextAddon]_vars

\* the steps of c_Toolbox.download_asset_thread itself
T_Routine ==
    \/ T_TopCheck
    \/ T_Loop
    \/ T_Poll
    \/ T_CancelWait
    \/ T_CancelReturn
    \/ T_After
    \/ T_Rescan
    \/ T_Cleanup

\* a step of the file worker of unit u that is not a failure of its stream
WorkerRuns(u) ==
    \/ WorkerBegin(u)
    \/ WorkerOngoing(u)
    \/ WorkerChunk(u)
    \/ WorkerStreamEnd(u)
    \/ WorkerResume(u)

\* The toolbox download with its threads scheduled: the asset pool starts the
\* routine, the routine's thread keeps running (its poll loop sleeps
\* DOWNLOAD_POLL_INTERVAL and goes on), and every file worker of the
\* ThreadPoolExecutor keeps running. The user and the failures are not forced.
SpecToolboxFair ==
    /\ SpecToolbox
    /\ WF_vars(RoutineStart)
    /\ WF_vars(T_Routine)
    /\ \A u \in 1..NumFiles : WF_vars(WorkerRuns(u))
Spec == Init /\ [][Next]_vars
SpecRetry == InitRetry /\ [][NextRetry]_vars
SpecPool == InitPool /\ [][NextPool]_vars

\* two threads that call the index
InitIndex == InitWith(NumFiles, "index", {}, 0, <<NoFile, NoFile>>)

NextIndex ==
    \E t \in IndexThreads :
        \/ \E i \in Ids : I_MarkPurchased(t, i)
        \/ I_MpSet(t)
        \/ I_MpStamp(t)
        \/ \E rec \in AssetRecords : I_LoadAsset(t, rec)
        \/ I_LaStore(t)
        \/ \E i \in Ids, rec \in AssetRecords : I_UpdateAsset(t, i, rec)
        \/ I_UaEnter(t)
        \/ I_UaRead(t)
        \/ I_UaApply(t)
        \/ \E all \in BOOLEAN : I_Flush(t, all)
        \/ I_FlAssets(t)
        \/ \E tab \in Tabs : I_StoreQuery(t, tab)

SpecIndex == InitIndex /\ [][NextIndex]_vars
SpecSync == InitSync /\ [][NextSync]_vars
SpecAddonSync == InitAddonSync /\ [][NextAddonSync]_vars

\* ------------------------------------------------------------------ claims
NoUnitRunning == \A u \in Units : fut[u] \notin {"pending", "running"}

\* C1: once a FileDownload's status is DONE or ERROR, no later operation on
\* that unit (scheduling, worker, cancel, per-file retry, rename) changes it
\* to WAITING, ONGOING or CANCELLED.
C1_FinalStatusKept == \A u \in Units : ~broken[u]

\* C2: if the asset download is cancelled while still queued, before the
\* routine's check at its top, then no URL list is requested, no file
\* transfer is started and no byte is written for any unit of the asset.
C2_QueuedCancelNoTransfer ==
    earlyCancel =>
        /\ urlReqs = 0
        /\ \A u \in Units : ~streamReqs[u] /\ ~writes[u] /\ fut[u] = "none"
        /\ temp = preTemp /\ final = preFinal
        /\ pc \in {"queued", "top", "dropped", "done"}

C2_Witness == earlyCancel /\ pc = "done" /\ afut = "done"

SizesAgree(u) ==
    size_downloaded[u] = SizeExpected /\ SizeExpected = stream_size[u]

AllPreExisting ==
    \A u \in Units : preTemp[u] = SizeExpected \/ preFinal[u] = SizeExpected

\* C5: when every file of the asset is already there with size_expected
\* bytes, under its final or its temp name, no unit issues a streaming
\* request or writes a byte and every worker returns ok with its unit DONE;
\* a download that got its URL list, saw no cancel and met no file-system
\* failure ends reported as a success with every unit DONE, every file
\* under its final name and no temp file left, as after a single download.
C5_ExistingFilesNoTransfer ==
    AllPreExisting =>
        /\ \A u \in Units : ~streamReqs[u] /\ ~writes[u]
        /\ \A u \in Units : fut[u] \notin {"none", "pending", "cancelled"} =>
              fut[u] = "ok" /\ (status[u] = DONE \/ faults > 0)
        /\ (pc = "done" /\ scheduled /\ ~user_cancel /\ faults = 0) =>
              /\ reported = "ok" /\ all_done /\ ~any_error
              /\ \A u \in Units :
                    status[u] = DONE /\ final[u] = SizeExpected /\ temp[u] = NoFile

C5_Witness ==
    /\ AllPreExisting
    /\ pc = "done" /\ scheduled /\ ~user_cancel /\ faults = 0
    /\ \A u \in Units : preFinal[u] = NoFile /\ final[u] = SizeExpected

\* the worker of u has not reached the chunk loop
BeforeStreaming(u) == wpc[u] \in {"begin", "opened", "refused"}

\* C6: a unit that is CANCELLED before its worker gets from WAITING to
\* ONGOING does not become ONGOING in any step, and no step writes a byte to
\* its temp file: set_status_ongoing fails and leaves the status.
C6_CancelledNeverOngoing ==
    [][\A u \in Units :
          (status[u] = CANCELLED /\ BeforeStreaming(u)) =>
              /\ status'[u] # ONGOING
              /\ writes'[u] => writes[u]
              /\ temp'[u] = temp[u]]_vars

C6_Witness ==
    \E u \in Units :
        /\ status[u] = CANCELLED /\ wpc[u] = "refused"
        /\ fut[u] = ERR_USER_CANCEL_MSG
        /\ streamReqs[u] /\ ~writes[u] /\ temp[u] = NoFile

\* C7: when PoliigonAddon.download_asset has created the destination
\* directory and returns, update_asset_data has run, whatever the outcome.
C7_RescanBeforeReturn ==
    (pc = "done" /\ dirCreated) => rescans >= 1

\* C8: update_asset_data starts only after the download loop is left and
\* while no file worker of the asset is running, and the completion is
\* reported (done callback, queue entry removed) only after it has finished.
C8_RescanOrder ==
    /\ pc = "rescan" => NoUnitRunning /\ ~orphans
    /\ (dirCreated /\ (~inQueue \/ (variant = "addon" /\ reported # "none")))
          => rescans >= 1

RECURSIVE SumTo(_, _)
SumTo(f, n) == IF n = 0 THEN 0 ELSE f[n] + SumTo(f, n - 1)

\* resubmissions by retry_file_download over the units of the dl_list
Resubmissions == SumTo(resubmits, nfiles)

\* C9: in the toolbox, when files of the asset fail with an expired URL and
\* nothing else fails, fresh URLs are requested and only failed units are
\* resubmitted, each resubmission taking one of the unit's retries; when
\* exactly one file failed once, exactly that unit has been resubmitted,
\* once, after exactly one more URL request, and the download ends as a
\* success.
C9_OnlyFailedUnitResubmitted ==
    /\ Resubmissions <= faults
    /\ \A u \in Units : dretries[u] = MAX_RETRIES_PER_FILE - resubmits[u]
    /\ Resubmissions > 0 => urlReqs >= 2
    /\ pc = "done" =>
          /\ reported = "ok" /\ all_done
          /\ Resubmissions = faults
          /\ faults = 1 => urlReqs = 2
          /\ \A u \in Units : status[u] = DONE /\ final[u] = SizeExpected

C9_Witness ==
    /\ nfiles = RetryFiles
    /\ pc = "done" /\ reported = "ok" /\ faults = 1
    /\ resubmits[3] = 1 /\ dretries[3] = MAX_RETRIES_PER_FILE - 1
    /\ \A u \in Units \ {3} : resubmits[u] = 0 /\ dretries[u] = MAX_RETRIES_PER_FILE

\* C10: in PoliigonAddon.download_asset, a file worker that failed with an
\* expired URL while retries are left does not make the asset download fail.
C10_ExpiredUrlNotFatal ==
    \A u \in Units :
        (fut[u] = ERR_URL_EXPIRED /\ retries > 0) => reported # "error"

\* a worker of the dl_list has failed with ERR_OS_NO_SPACE
NoSpaceFailure == \E u \in Units : fut[u] = ERR_OS_NO_SPACE

\* C11: in c_Toolbox.download_asset_thread, once a file worker of the dl_list
\* has failed with a no-space error, no step issues a URL-list request and
\* no step submits a file transfer.
C11_NoSpaceIsTerminal ==
    [][NoSpaceFailure =>
          /\ urlReqs' = urlReqs
          /\ \A u \in Units : fut'[u] = "pending" => fut[u] = "pending"]_vars

\* the routine has left its loop after a full success and rename_downloads
\* has run
AfterRename ==
    pc \in {"rescan", "cleanup", "done"} /\ all_done /\ ~any_error /\ ~user_cancel

\* C12: when the rename of a unit's temp file fails in
\* PoliigonAddon.download_asset, the unit is set to ERROR and the asset
\* download is reported as failed, not as a success.
C12_RenameFailureReported ==
    (variant = "addon" /\ AfterRename) =>
        \A u \in A_NeedRename :
            /\ status[u] = ERROR
            /\ pc = "done" => reported = "error"

\* C13: one call of PoliigonAddon.download_asset, or of _asset_download_loop,
\* issues at most MAX_DOWNLOAD_RETRIES URL-list requests, whatever the mix
\* of missing lists, file errors and cancellation.
C13_UrlRequestsBounded == urlReqs <= MAX_DOWNLOAD_RETRIES

C13_Witness ==
    /\ urlReqs = MAX_DOWNLOAD_RETRIES
    /\ pc = "done" /\ retries = 0
    /\ variant = "sync" /\ faults > 0 /\ scheduled

\* C14: a cancel request for an asset that is not in the download queue
\* (never queued, or its download has completed) leaves the download queue
\* and the set of cancelled assets as they are.
C14_CancelOutsideQueueIsNoOp ==
    [][(CancelDownload /\ ~inQueue) => UNCHANGED <<inQueue, cancelled>>]_vars

\* C15: at most MAX_PARALLEL_ASSET_DOWNLOADS asset download routines run at
\* the same time: a routine starts only when fewer are running, and waits
\* in the pool's queue until then.
C15_AtMostTwoRoutines ==
    [][/\ Cardinality(RunningAssets) <= MAX_PARALLEL_ASSET_DOWNLOADS
       /\ \A a \in Assets :
             (slot[a] = "pending" /\ slot'[a] = "running") =>
                 Cardinality(RunningAssets) < MAX_PARALLEL_ASSET_DOWNLOADS]_vars

C15_Witness ==
    /\ Cardinality(RunningAssets) = MAX_PARALLEL_ASSET_DOWNLOADS
    /\ \E a \in Assets : slot[a] = "pending"
    /\ \E a \in Assets : slot[a] = "done"

\* the flags check_downloads returned last
C16_Flags ==
    /\ all_done => \A u \in Units : fut[u] = "ok"
    /\ any_error => ~all_done

\* c_Toolbox.check_downloads forces the retries to 0 of no unit but the first
\* failed one: the units after it are not examined
C16_ScanStops ==
    \A u \in Units :
        (dretries'[u] = 0 /\ dretries[u] > 1) =>
            /\ FutFailed(fut[u])
            /\ \A v \in Units : v < u => ~FutFailed(fut[v])

\* C16: check_downloads returns all_done only if every unit's future has
\* completed without an exception and with an ok result; the first failed
\* unit stops the scan; any_error is never returned together with all_done.
C16_AllDoneOnlyIfEveryUnitOk == []C16_Flags /\ [][C16_ScanStops]_vars

C16_Witness ==
    /\ any_error /\ ~all_done
    /\ \E u, v \in Units :
          /\ u < v /\ fut[u] = "ok"
          /\ FutFailed(fut[v]) /\ dretries[v] = 0 /\ dretries[u] = MAX_RETRIES_PER_FILE

\* C17: no operation sets a FileDownload that is DONE to ERROR, or one that
\* is ERROR to DONE.
C17_DoneAndErrorAreTerminal ==
    [][\A u \in Units :
          /\ status[u] = DONE => status'[u] # ERROR
          /\ status[u] = ERROR => status'[u] # DONE]_vars

\* the step in which PoliigonAddon.cancel_downloads calls
\* set_status_cancelled on every unit of the dl_list
CancelStep == pc = "poll" /\ pc' = "cancelwait"

\* C18: set_status_cancelled leaves a unit that is DONE or ERROR as it is,
\* status and the other fields, and sets the status of a unit in any other
\* status to CANCELLED.
C18_CancelKeepsFinalStates ==
    [][CancelStep =>
          \A u \in Units :
              /\ status[u] \in {DONE, ERROR} => status'[u] = status[u]
              /\ status[u] \notin {DONE, ERROR} => status'[u] = CANCELLED
              /\ size_downloaded'[u] = size_downloaded[u]
              /\ dretries'[u] = dretries[u]]_vars

C18_Witness ==
    /\ pc = "cancelwait"
    /\ \E u, v \in Units :
          /\ status[u] = DONE /\ fut[u] = "ok"
          /\ status[v] = CANCELLED /\ fut[v] = "running"

\* a thread is inside an index method: it has run a statement of it and has
\* not returned
InIndexCall(t) == ipc[t] # "idle"

\* C19: all reads and writes of the index's asset map and cached-query map
\* are serialized: while one thread is inside an index operation, no other
\* thread runs a statement of an index operation, so no two operations
\* interleave their steps and no reader sees a partially applied update.
C19_IndexOperationsSerialized ==
    [][\A t \in IndexThreads :
          InIndexCall(t) =>
              /\ iops' = iops
              /\ \A o \in IndexThreads \ {t} :
                     ipc'[o] = ipc[o] /\ iarg'[o] = iarg[o]]_vars

\* update_asset's checks and update run
UpdateAssetDecides(t) == ipc[t] = "ua_apply" /\ ipc'[t] = "idle"

\* the record that update_asset was given differs from the AssetData that it
\* read from all_assets
DiffersFromRead(t) ==
    \/ iarg[t].key # iarg[t].asset_id
    \/ asset_data[t].asset_name # iarg[t].asset_name
    \/ asset_data[t].asset_type # iarg[t].asset_type

\* load_asset stores its record under asset_id i
LoadAssetStores(t, i) ==
    ipc[t] = "la_store" /\ ipc'[t] = "idle" /\ iarg[t].key = i

\* the name or the type under asset_id i changes
Rebound(i) ==
    /\ i \in DOMAIN all_assets
    /\ i \in DOMAIN all_assets'
    /\ \/ all_assets'[i].asset_name # all_assets[i].asset_name
       \/ all_assets'[i].asset_type # all_assets[i].asset_type

\* C20: update_asset (and load_asset for an indexed id) given a record whose
\* asset_id, asset_name or asset_type differs from the stored record raises a
\* mismatch error and leaves the stored record unchanged, so that over any
\* sequence of index operations the name and type bound to an asset_id in
\* all_assets never change: they are the first ones stored under it.
C20_NameAndTypeNeverRebound ==
    \A i \in DOMAIN all_assets :
        <<all_assets[i].asset_name, all_assets[i].asset_type>> = bound[i]

\* C20, as the code has it: update_asset (and load_asset for an indexed id)
\* given a record whose asset_id, asset_name or asset_type differs from the
\* AssetData it read from all_assets raises a mismatch error and leaves
\* all_assets unchanged; no index operation changes the name or the type of
\* an AssetData, so the name and type under an asset_id change only when
\* load_asset stores another AssetData under it.
C20_UpdateNeverRebinds ==
    [][/\ \A t \in IndexThreads :
            (UpdateAssetDecides(t) /\ DiffersFromRead(t)) =>
                iresult' = "ValueError" /\ all_assets' = all_assets
       /\ \A i \in Ids :
            Rebound(i) => \E t \in IndexThreads : LoadAssetStores(t, i)]_vars

\* update_asset has raised a mismatch error on an indexed asset, in an index
\* that holds an asset_id under another name or type than the first one
C20_Witness ==
    /\ iresult = "ValueError"
    /\ \E i \in DOMAIN all_assets :
          <<all_assets[i].asset_name, all_assets[i].asset_type>> # bound[i]

\* the outer loop of download_asset gets a URL list without a file: None or
\* an empty list
A_NoFileListed ==
    /\ variant = "addon"
    /\ pc = "loop"
    /\ ~all_done /\ ~user_cancel /\ retries > 0
    /\ ~cancelled
    /\ urlReqs' # urlReqs
    /\ ~scheduled'

\* C28: in the retry loop of PoliigonAddon.download_asset a URL-list response
\* that is null or an empty list consumes exactly one retry and the loop goes
\* on to its next pass: nothing is scheduled, and the routine neither ends
\* nor treats the download as complete on that attempt.
C28_NoFileConsumesOneRetry ==
    [][A_NoFileListed =>
          /\ retries' = retries - 1
          /\ pc' = "loop"
          /\ \A u \in Units : fut'[u] = "none"]_vars

\* C29: an exception inside a file worker or while the URL list is built never
\* leaves the worker or ends the routine's thread: no future of a file worker
\* and no future of the routine holds an exception, and a worker that
\* returned a not-ok result other than the user's cancel left its unit in ERROR.
C29_ExceptionsBecomeErrorResults ==
    /\ \A u \in Units : fut[u] # "raised"
    /\ afut # "raised"
    /\ pc # "crashed"
    /\ \A u \in Units :
          (fut[u] \in ErrResults \ {ERR_USER_CANCEL_MSG, ERR_FILESIZE_MISMATCH})
              => status[u] \in {ERROR, CANCELLED}

\* a pass of the toolbox's poll loop finds that unit u failed with a network
\* or expired-URL error while its per-file budget lasts
T_NetFailurePolled(u) ==
    /\ variant = "toolbox"
    /\ pc = "poll"
    /\ ~cancelled
    /\ u = T_FirstFailed
    /\ fut[u] \in {ERR_CONNECTION, ERR_URL_EXPIRED}
    /\ dretries[u] > 0
    /\ urlReqs' # urlReqs

\* C30: a file whose transfer failed with a network (connection, timeout) or
\* expired-URL error keeps its per-file budget for a resubmission (the poll
\* that finds it takes at most one retry from it and does not escalate the
\* error to the asset), and no unit is resubmitted more than
\* MAX_RETRIES_PER_FILE times.
C30_NetworkFailureRetriedWithinBudget ==
    [][\A u \in Units :
          T_NetFailurePolled(u) =>
              /\ dretries'[u] >= dretries[u] - 1
              /\ reported' = reported
              /\ \A v \in Units : resubmits'[v] <= MAX_RETRIES_PER_FILE]_vars

\* FileDownload.lock: the dataclass field's default value is one Lock object,
\* created when the class body runs, and no FileDownload is built with a lock
\* of its own
LockOf(u) == "FileDownload.lock"

\* the statuses a setter of FileDownload, which holds self.lock, can leave
\* behind in a unit whose status is s
LockedWrites(s) ==
    {SetStatusCancelled(s), SetStatusOngoing(s)[2], SetStatusError(s), SetStatusDone(s)}

\* C27: every write to a unit's status, by the scheduler, the file worker,
\* cancel, per-file retry or rename, is made by a setter holding that unit's
\* own lock, and the locks of two distinct units are distinct.
C27_StatusWrittenUnderOwnLock ==
    [][\A u \in Units :
          status'[u] # status[u] =>
              /\ status'[u] \in LockedWrites(status[u])
              /\ \A v \in Units \ {u} : LockOf(v) # LockOf(u)]_vars

\* the largest size of assets.SIZES the asset comes in, if any
LargestAvailable == ReversedScan(SIZES, dd_avail)

\* C24: when none of the sizes asked for is among the asset's available
\* sizes, get_download_data requests exactly one size: the largest available
\* size in the order of SIZES, and the smallest size, SIZES[0], where the
\* reversed scan finds none.
C24_SizeFallback ==
    (dd_caller # "none" /\ SizesIn(dd_sizes, dd_avail) = <<>>) =>
        /\ Len(dd_result) = 1
        /\ dd_result = IF LargestAvailable # <<>> THEN LargestAvailable
                       ELSE <<SIZES[1]>>

\* C26: for each held token the invalidation callback is invoked exactly once
\* after a 401 response, also when several requests that use the token are in
\* flight and each receives such a response.
C26_InvalidatedOncePerToken ==
    \A k \in Tokens :
        /\ invalidations[k] <= 1
        /\ k \in unauthorized => invalidations[k] = 1

\* the filenames both library directories hold
InBothDirs == lib["primary"] \cap lib["secondary"]

\* C22: after update_all_local_assets([primary, secondary]) the asset's file
\* records point to the primary directory for every filename present in both
\* directories.
C22_PrimaryWinsCollisions ==
    s_op = "update_all_local_assets" =>
        \A r \in s_maps \cup s_meshes :
            r.filename \in InBothDirs => r.directory = "primary"

\* update_from_directory has just scanned a directory that holds temp files
\* of the asset and nothing else
OnlyTempScanned ==
    /\ s_op = "update_from_directory"
    /\ lib[s_dir] # {}
    /\ \A f \in lib[s_dir] : IsTemp(f)

\* C23: a directory that contains only temp files is treated as containing
\* no file of the asset: update_from_directory returns false (and so does
\* not set is_local), and derives no texture map, mesh or size entry from
\* those files.
C23_TempFilesLeaveNoEntry ==
    OnlyTempScanned =>
        /\ s_ret = FALSE
        /\ s_update.maps = {} /\ s_update.meshes = {} /\ s_update.sizes = {}
        /\ \A r \in s_maps \cup s_meshes : ~IsTemp(r.filename)

\* C21 as stated: across the operations of the index an asset_id once present
\* in all_assets stays present; only flush(all_assets=True) removes records.
C21_OnlyFullFlushRemoves ==
    c_removed # {} => c_op = "flush all_assets"

\* C21, amended: an id leaves all_assets only by flush(all_assets=True) or by
\* load_cache, which replaces all_assets by the records of the cache file.
C21_OnlyFullFlushOrLoadRemoves ==
    c_removed # {} => c_op \in {"flush all_assets", "load_cache"}

C21_Witness ==
    /\ c_op = "load_cache"
    /\ c_removed # {}
    /\ c_assets # <<>>

C35_ReturnLeavesNoQueueEntry ==
    [][(variant = "addon" /\ pc # "done" /\ pc' = "done")
          => (~inQueue' /\ ~cancelled')]_vars

\* C38: PoliigonAddon.download_asset reports completion without an error
\* (done_callback(asset_id), return True) only if every file of the asset is
\* in place under its final name or the user cancelled the download.
C38_ErrorFreeOnlyWhenComplete ==
    [][(variant = "addon" /\ reported # "ok" /\ reported' = "ok")
          => \/ user_cancel \/ cancelled
             \/ \A u \in Units : final'[u] = SizeExpected]_vars

\* C36: queue_download never fails: when it stores the future into
\* download_queue[asset_id], the queue entry is there.
C36_StoreFindsQueueEntry == q_store # "KeyError"

\* C37: c_Toolbox.download_asset_thread leaves its poll loop whenever it has
\* entered it, also when the user never cancels.
C37_PollLoopExits == (pc = "poll") ~> (pc # "poll")

\* C32: enqueue_job(job, force=False) puts the job on the job queue only if no
\* equal job that was enqueued with force=False is still unfinished, be it
\* in flight or still waiting in the job queue.
C32_EqualJobQueuedOnce ==
    [][\A j \in Jobs :
          (job_sub[j] # "queued" /\ job_sub'[j] = "queued")
          => ~\E k \in Jobs \ {j} :
                 /\ JobEq(k, j)
                 /\ job_sub[k] = "queued"
                 /\ job_future[k] \in {"none", "pending", "running"}]_vars

\* C33: when wait_for_all returns and no job was added to jobs_in_flight
\* during the call, every job that was in flight at the call (of the given
\* type, if one was given) is out of jobs_in_flight, and its future was
\* cancelled or, where that failed, its cancel callback was called.
C33_WaitForAllCancelsAll ==
    [][(caller.pc = "visit" /\ caller'.pc = "idle" /\ ~caller.added)
          => \A j \in caller.snap :
                 ~InFlight(j)' /\ job_cancel'[j] # "none"]_vars

\* the scheduler thread has taken job j from the job queue
Taken(j) ==
    /\ job_sub[j] \in {"queued", "forced"}
    /\ \A k \in 1..Len(queue_jobs) : queue_jobs[k] # j

\* C34: every job other than EXIT that the scheduler thread takes from the
\* job queue is in the end processed by the collector thread, and exactly
\* once: finish, callback_done, release from jobs_in_flight, cnt_done.
C34_TakenJobsCollectedOnce ==
    /\ \A j \in Jobs : Taken(j) ~> (cnt_done[j] = 1)
    /\ [](\A j \in Jobs : cnt_done[j] <= 1)
====
